---- MODULE Spec2Model ----
(***************************************************************************)
(* Mesh asset streaming and caching pipeline of                            *)
(* indra/newview/llmeshrepository.cpp: the main-thread request scheduler   *)
(* (LLMeshRepository), the repo worker thread (LLMeshRepoThread), its      *)
(* HTTP handlers and the per-mesh cache file.                              *)
(***************************************************************************)
EXTENDS Integers, Sequences, FiniteSets, TLC

(***************************************************************************)
(* Program constants.                                                      *)
(***************************************************************************)
MESH_HEADER_SIZE == 4096
REQUEST_HIGH_WATER_MIN == 32
REQUEST_HIGH_WATER_MAX == 80
REQUEST_LOW_WATER_MIN == 16
REQUEST_LOW_WATER_MAX == 40
\* The MeshMaxConcurrentRequests setting read by notifyLoadedMeshes.
MeshMaxConcurrentRequests == 32
MAX_MESH_VERSION == 999
\* LLModel::NUM_LODS
NUM_LODS == 5

(***************************************************************************)
(* Bounds of the model.                                                    *)
(***************************************************************************)
\* getByteRange may return LLCORE_HTTP_HANDLE_INVALID at most this often.
MaxInvalidHandles == 1
\* loadMesh is called at most this often in one run.
MaxLoadMesh == 2

(***************************************************************************)
(* Values.                                                                 *)
(***************************************************************************)
MeshIds == {"M1"}
\* Two volume parameter sets that share one sculpt (mesh) id.
VolumeParams == {"V1", "V2"}
Objects == {"O1", "O2"}
\* The detail values loadMesh is called with.
Details == {0, 3}

\* The volume parameter sets of a scheduler tick under load: those with a
\* pending request (two per mesh id, in the order LLVolumeParams::operator<
\* gives them) and those whose header request is in flight (each of a mesh
\* id of its own, named like the parameter set).
PendingParams == <<"V1", "V2", "V3", "V4", "V5", "V6">>
ActiveParams ==
    <<"A01", "A02", "A03", "A04", "A05", "A06", "A07", "A08", "A09", "A10",
      "A11", "A12", "A13", "A14", "A15", "A16", "A17", "A18", "A19", "A20",
      "A21", "A22", "A23", "A24", "A25", "A26", "A27", "A28", "A29", "A30",
      "A31", "A32", "A33", "A34", "A35", "A36", "A37", "A38", "A39">>

\* The three classes of auxiliary requests, in the order run() scans their
\* request sets, and the header block a request of the class asks for.
AuxClasses == <<"Skin", "Decomposition", "PhysicsShape">>
AuxClassSet == {AuxClasses[i] : i \in DOMAIN AuxClasses}
AuxBlock(class) ==
    CASE class = "Skin" -> "skin"
      [] class = "Decomposition" -> "physics_convex"
      [] OTHER -> "physics_mesh"
\* The mesh ids auxiliary blocks are asked for, in the order of std::set<LLUUID>.
AuxMeshIds == <<"M1", "M2">>

getSculptID(mesh_params) ==
    CASE mesh_params \in {"V1", "V2"} -> "M1"
      [] mesh_params \in {"V3", "V4"} -> "M2"
      [] mesh_params \in {"V5", "V6"} -> "M3"
      [] OTHER -> mesh_params

llmin(a, b) == IF a < b THEN a ELSE b
llmax(a, b) == IF a > b THEN a ELSE b
llclamp(a, lo, hi) == IF a < lo THEN lo ELSE IF a > hi THEN hi ELSE a

(***************************************************************************)
(* Byte buffers.  A buffer has a size and its non-zero bytes: data maps    *)
(* the offsets that hold a non-zero byte to that byte, every other offset  *)
(* below size holds 0.                                                     *)
(***************************************************************************)
EmptyBuf == [size |-> 0, data |-> [i \in {} |-> 0]]

BufByte(b, i) == IF i \in DOMAIN b.data THEN b.data[i] ELSE 0

\* The bytes [off, off+len) of b that exist, as a buffer starting at 0.
BufSub(b, off, len) ==
    LET n == llmax(0, llmin(len, b.size - off))
        keep == {i \in DOMAIN b.data : i >= off /\ i < off + n}
    IN [size |-> n, data |-> [j \in {i - off : i \in keep} |-> b.data[j + off]]]

\* b with the n bytes of src written at offset pos (the file grows as needed).
BufWrite(b, pos, src, n) ==
    LET s == BufSub(src, 0, n)
        old == {i \in DOMAIN b.data : i < pos \/ i >= pos + n}
        new == {i + pos : i \in DOMAIN s.data}
    IN [size |-> llmax(b.size, pos + n),
        data |-> [i \in old \cup new |->
                    IF i \in new THEN s.data[i - pos] ELSE b.data[i]]]

\* The all-zero check of the first 1 KB of a block read from the cache.
IsZero(buffer, size) ==
    \A i \in DOMAIN buffer.data : ~(i < llmin(size, 1024))

(***************************************************************************)
(* Mesh headers and the assets the server holds.                           *)
(***************************************************************************)
NoBlock == [offset |-> 0, size |-> 0]

Header404 ==
    [has404 |-> TRUE, version |-> 0,
     lod |-> [l \in 0..3 |-> NoBlock],
     skin |-> NoBlock, physics_convex |-> NoBlock, physics_mesh |-> NoBlock]

\* A supported header: the lowest LOD lies inside the 4 KB header probe,
\* the high LOD beyond it, the low and medium LODs are absent.
HeaderOk ==
    [has404 |-> FALSE, version |-> 1,
     lod |-> [l \in 0..3 |->
                CASE l = 0 -> [offset |-> 0, size |-> 2]
                  [] l = 3 -> [offset |-> 5000, size |-> 2]
                  [] OTHER -> NoBlock],
     skin |-> NoBlock, physics_convex |-> NoBlock, physics_mesh |-> NoBlock]

\* A header of a format newer than MAX_MESH_VERSION.
HeaderNew ==
    [has404 |-> FALSE, version |-> 1000,
     lod |-> [l \in 0..3 |->
                CASE l = 0 -> [offset |-> 0, size |-> 2]
                  [] l = 3 -> [offset |-> 2, size |-> 2]
                  [] OTHER -> NoBlock],
     skin |-> NoBlock, physics_convex |-> NoBlock, physics_mesh |-> NoBlock]

\* A supported header that lists a skin, a physics_convex and a physics_mesh
\* block as well, all beyond the 4 KB header probe.
HeaderAux ==
    [HeaderOk EXCEPT !.skin = [offset |-> 6000, size |-> 2],
                     !.physics_convex = [offset |-> 7000, size |-> 2],
                     !.physics_mesh = [offset |-> 8000, size |-> 2]]

\* A supported header whose high LOD lies more than two blocks of
\* MESH_HEADER_SIZE beyond the header probe.
HeaderFar ==
    [HeaderOk EXCEPT !.lod[3] = [offset |-> 13000, size |-> 2]]

\* The serialized form of a header starts with a byte that names it.
HeaderTable ==
    [t \in {1, 2, 3, 4} |->
        CASE t = 1 -> HeaderOk [] t = 2 -> HeaderNew [] t = 3 -> HeaderAux
          [] OTHER -> HeaderFar]
\* Bytes the serialized header takes.
EncodedHeaderLen == 3

\* "<? LLSD/Binary ?>": the tag a legacy header starts with.
deprecated_header ==
    <<60, 63, 32, 76, 76, 83, 68, 47, 66, 105, 110, 97, 114, 121, 32, 63, 62>>

\* LLSDSerialize::fromBinary on res_str: the parsed header and the bytes read.
fromBinary(res_str) ==
    IF res_str.size >= EncodedHeaderLen /\ BufByte(res_str, 0) \in DOMAIN HeaderTable
    THEN [ok |-> TRUE, header |-> HeaderTable[BufByte(res_str, 0)],
          tellg |-> EncodedHeaderLen]
    ELSE [ok |-> FALSE, header |-> Header404, tellg |-> 0]

\* LLVolume::unpackVolumeFaces and getNumFaces() > 0: the decoded geometry.
unpackVolumeFaces(data) ==
    IF data.size > 0 /\ BufByte(data, 0) \in 1..99
    THEN [ok |-> TRUE, faces |-> data]
    ELSE [ok |-> FALSE, faces |-> EmptyBuf]

\* LLVolumeLODGroup's detail scales (times two) and the two conversions.
mDetailScales == [d \in 0..3 |->
    CASE d = 0 -> 2 [] d = 1 -> 3 [] d = 2 -> 5 [] OTHER -> 8]
getVolumeScaleFromDetail(detail) == mDetailScales[detail]
getVolumeDetailFromScale(scale) ==
    IF mDetailScales[1] > scale THEN 0
    ELSE IF mDetailScales[2] > scale THEN 1
    ELSE IF mDetailScales[3] > scale THEN 2
    ELSE 3

\* The asset with a supported header, as the server stores it.
AssetOk ==
    [size |-> EncodedHeaderLen + 5002,
     data |-> (0 :> 1) @@ (1 :> 88) @@ (2 :> 88) @@ (3 :> 11) @@ (4 :> 12)
              @@ (5003 :> 31) @@ (5004 :> 32)]
\* An asset of a newer format.
AssetNew ==
    [size |-> EncodedHeaderLen + 4,
     data |-> (0 :> 2) @@ (1 :> 88) @@ (2 :> 88) @@ (3 :> 41) @@ (4 :> 42)
              @@ (5 :> 43) @@ (6 :> 44)]
Assets == {AssetOk, AssetNew}
\* An asset with skin, physics_convex and physics_mesh blocks.
AssetAux ==
    [size |-> EncodedHeaderLen + 8002,
     data |-> (0 :> 3) @@ (1 :> 88) @@ (2 :> 88) @@ (3 :> 11) @@ (4 :> 12)
              @@ (5003 :> 31) @@ (5004 :> 32) @@ (6003 :> 51) @@ (6004 :> 52)
              @@ (7003 :> 61) @@ (7004 :> 62) @@ (8003 :> 71) @@ (8004 :> 72)]

\* The asset of HeaderFar.
AssetFar ==
    [size |-> EncodedHeaderLen + 13002,
     data |-> (0 :> 4) @@ (1 :> 88) @@ (2 :> 88) @@ (3 :> 11) @@ (4 :> 12)
              @@ (13003 :> 31) @@ (13004 :> 32)]

\* A response body that neither parses as a header nor decodes as geometry.
GarbageBuf(n) == [size |-> n, data |-> (0 :> 200)]

(***************************************************************************)
(* State.                                                                  *)
(***************************************************************************)
VARIABLES
    \* LLMeshRepository (main thread)
    mLoadingMeshes,         \* <<detail, params>> -> ids of the interested objects
    mPendingRequests,       \* LOD requests not yet forwarded to the worker
    mLoadingAux,            \* class -> mesh ids in mLoadingSkins,
                            \*          mLoadingDecompositions, mLoadingPhysicsShapes
    mPendingAuxRequests,    \* class -> mPendingSkinRequests,
                            \*          mPendingDecompositionRequests,
                            \*          mPendingPhysicsShapeRequests
    mSkinMap,               \* mesh id -> skin info
    mDecompositionMap,      \* mesh id -> decomposition
    \* LLMeshRepoThread (repo worker)
    mMeshHeader,            \* mesh id -> header
    mMeshHeaderSize,        \* mesh id -> bytes the serialized header takes
    mHeaderReqQ,            \* queue of header requests (volume params)
    mLODReqQ,               \* queue of LOD requests
    mPendingLOD,            \* params -> LOD levels waiting for the header
    mLoadedQ,               \* decoded meshes for the main thread
    mUnavailableQ,          \* LOD requests found unavailable
    mSkinInfoQ,             \* skin infos for the main thread
    mDecompositionQ,        \* decompositions for the main thread
    mAuxRequests,           \* class -> mSkinRequests, mDecompositionRequests,
                            \*          mPhysicsShapeRequests (mesh ids)
    mHttpRequestSet,        \* live HTTP handlers
    sActiveHeaderRequests,
    sActiveLODRequests,
    mWaiting,               \* the worker waits on mSignal
    signaled,               \* mSignal was signaled while the worker waits
    pc,                     \* the worker's place in run()
    throttled,              \* count >= MAX_MESH_REQUESTS_PER_SECOND
    uncounted,              \* HTTP GETs issued since count was cleared that
                            \* were not added to count
    \* environment
    vfs,                    \* mesh id -> cache file
    asset,                  \* mesh id -> the asset the server holds
    nInvalid,               \* invalid handles returned so far
    nLoadMesh,              \* loadMesh calls so far
    written,                \* <<mesh id, LOD>> -> the block a LOD handler cached
    event,                  \* the operation that ran last and its outcome
    \* application, uploads and physics decomposition
    isQuitting,             \* LLApp::isQuitting()
    mn,                     \* the main thread: its place in notifyCompleted or
                            \* shutdown, and the notifications it has shown
    mUploadErrorQ,          \* LLMeshRepository::mUploadErrorQ
    up,                     \* the LLMeshUploadThread
    dec,                    \* the LLPhysicsDecomp thread
    lk                      \* thread -> the mutexes it holds and the lock, unlock
                            \* and queue operations left in its current call

vars == <<mLoadingMeshes, mPendingRequests, mMeshHeader, mMeshHeaderSize,
          mHeaderReqQ, mLODReqQ, mPendingLOD, mLoadedQ, mUnavailableQ,
          mHttpRequestSet, sActiveHeaderRequests, sActiveLODRequests,
          mWaiting, signaled, pc, throttled, vfs, asset, nInvalid, nLoadMesh,
          written, event, mLoadingAux, mPendingAuxRequests, mAuxRequests,
          uncounted, mSkinInfoQ, mDecompositionQ, mSkinMap, mDecompositionMap,
          isQuitting, mn, mUploadErrorQ, up, dec, lk>>

InSeq(seq, x) == \E i \in DOMAIN seq : seq[i] = x

LockThreads == {"main", "repo", "upload"}

\* No thread is in a call and no mutex is held.
LocksIdle ==
    lk = [prog |-> [t \in LockThreads |-> << >>],
          held |-> [t \in LockThreads |-> << >>],
          call |-> [t \in LockThreads |-> "-"]]

\* No upload was requested and the decomposition thread waits.
UploadsIdle ==
    /\ isQuitting = FALSE
    /\ mn = [pc |-> "run", isFinal |-> FALSE, assertFailed |-> FALSE,
             notifications |-> << >>]
    /\ mUploadErrorQ = << >>
    /\ up = [pc |-> "none"]
    /\ dec = [pc |-> "wait", mRequestQ |-> << >>, mCurRequest |-> << >>,
              mCompletedQ |-> << >>, mQuitting |-> FALSE, signaled |-> FALSE,
              submitted |-> << >>, started |-> << >>, finished |-> << >>]
    /\ LocksIdle

UploadsUnchanged == UNCHANGED <<isQuitting, mn, mUploadErrorQ, up, dec, lk>>

\* The popup of the queued upload errors in LLMeshRepository::notifyLoadedMeshes.
TickUploads ==
    /\ mn.pc = "run"
    /\ mn' = [mn EXCEPT !.notifications = @ \o mUploadErrorQ]
    /\ mUploadErrorQ' = << >>
    /\ UNCHANGED <<isQuitting, up, dec, lk>>

\* The worker's fields as one record, for the methods that change several.
Thread ==
    [mMeshHeader |-> mMeshHeader, mMeshHeaderSize |-> mMeshHeaderSize,
     mHeaderReqQ |-> mHeaderReqQ, mLODReqQ |-> mLODReqQ,
     mPendingLOD |-> mPendingLOD, mLoadedQ |-> mLoadedQ,
     mUnavailableQ |-> mUnavailableQ, mHttpRequestSet |-> mHttpRequestSet,
     sActiveHeaderRequests |-> sActiveHeaderRequests,
     sActiveLODRequests |-> sActiveLODRequests, vfs |-> vfs,
     mSkinInfoQ |-> mSkinInfoQ, mDecompositionQ |-> mDecompositionQ]

SetThread(t) ==
    /\ mMeshHeader' = t.mMeshHeader
    /\ mMeshHeaderSize' = t.mMeshHeaderSize
    /\ mHeaderReqQ' = t.mHeaderReqQ
    /\ mLODReqQ' = t.mLODReqQ
    /\ mPendingLOD' = t.mPendingLOD
    /\ mLoadedQ' = t.mLoadedQ
    /\ mUnavailableQ' = t.mUnavailableQ
    /\ mHttpRequestSet' = t.mHttpRequestSet
    /\ sActiveHeaderRequests' = t.sActiveHeaderRequests
    /\ sActiveLODRequests' = t.sActiveLODRequests
    /\ vfs' = t.vfs
    /\ mSkinInfoQ' = t.mSkinInfoQ
    /\ mDecompositionQ' = t.mDecompositionQ

NoFile == EmptyBuf
Erase(f, k) == [x \in DOMAIN f \ {k} |-> f[x]]
Put(f, k, v) == [x \in DOMAIN f \cup {k} |-> IF x = k THEN v ELSE f[x]]

LODRequest(mesh_params, lod) ==
    [mMeshParams |-> mesh_params, mLOD |-> lod, mScore |-> 0]
HttpStatus(type, code) == [mType |-> type, mStatus |-> code]
NoStatus == HttpStatus("none", 0)
\* event: the operation that ran last, its request, its outcome and, for a
\* failed completion, the status it was given; for a tick, the objects
\* gObjectList found (each with the <<detail, params>> of its volume) and the
\* notifications the tick delivered and, if it sorted the pending requests,
\* the sorted list.
NoEvent ==
    [op |-> "init", vp |-> "-", lod |-> -1, res |-> "-", status |-> NoStatus,
     found |-> << >>, notified |-> {}, sorted |-> << >>]
Event(op, vp, lod, res) ==
    [op |-> op, vp |-> vp, lod |-> lod, res |-> res, status |-> NoStatus,
     found |-> << >>, notified |-> {}, sorted |-> << >>]
FailEvent(op, vp, lod, status, res) ==
    [op |-> op, vp |-> vp, lod |-> lod, res |-> res, status |-> status,
     found |-> << >>, notified |-> {}, sorted |-> << >>]
TickEvent(found, notified, sorted) ==
    [op |-> "notifyLoadedMeshes", vp |-> "-", lod |-> -1, res |-> "-",
     status |-> NoStatus, found |-> found, notified |-> notified,
     sorted |-> sorted]

Init ==
    /\ UploadsIdle
    /\ mLoadingMeshes = [k \in {} |-> {}]
    /\ mPendingRequests = << >>
    /\ mMeshHeader = [m \in {} |-> Header404]
    /\ mMeshHeaderSize = [m \in {} |-> 0]
    /\ mHeaderReqQ = << >>
    /\ mLODReqQ = << >>
    /\ mPendingLOD = [v \in {} |-> << >>]
    /\ mLoadedQ = << >>
    /\ mUnavailableQ = << >>
    /\ mHttpRequestSet = {}
    /\ sActiveHeaderRequests = 0
    /\ sActiveLODRequests = 0
    /\ mWaiting = FALSE
    /\ signaled = FALSE
    /\ pc = "update"
    /\ throttled = FALSE
    /\ uncounted = 0
    /\ mLoadingAux = [class \in AuxClassSet |-> {}]
    /\ mPendingAuxRequests = [class \in AuxClassSet |-> << >>]
    /\ mAuxRequests = [class \in AuxClassSet |-> {}]
    /\ mSkinInfoQ = << >>
    /\ mDecompositionQ = << >>
    /\ mSkinMap = << >>
    /\ mDecompositionMap = << >>
    /\ vfs = [m \in MeshIds |-> NoFile]
    /\ asset \in [MeshIds -> Assets]
    /\ nInvalid = 0
    /\ nLoadMesh = 0
    /\ written = [k \in {} |-> EmptyBuf]
    /\ event = NoEvent

(***************************************************************************)
(* LLMeshRepoThread methods, as functions of the worker record t.          *)
(***************************************************************************)
HeaderSizeOf(t, mesh_id) ==
    IF mesh_id \in DOMAIN t.mMeshHeaderSize THEN t.mMeshHeaderSize[mesh_id] ELSE 0

\* LLMeshRepoThread::loadMeshLOD
loadMeshLOD(t, mesh_params, lod) ==
    IF getSculptID(mesh_params) \in DOMAIN t.mMeshHeader
    THEN \* the header is known: request the LOD byte range
         [t EXCEPT !.mLODReqQ = Append(@, LODRequest(mesh_params, lod))]
    ELSE IF mesh_params \in DOMAIN t.mPendingLOD
    THEN \* append this LOD to the existing header request
         [t EXCEPT !.mPendingLOD[mesh_params] = Append(@, lod)]
    ELSE \* no header request is pending: fetch the header
         [t EXCEPT !.mHeaderReqQ = Append(@, mesh_params),
                   !.mPendingLOD = Put(@, mesh_params, <<lod>>)]

\* Whether res_str starts with the legacy tag.
HasDeprecatedHeader(res_str) ==
    /\ res_str.size >= Len(deprecated_header)
    /\ \A i \in 1..Len(deprecated_header) : BufByte(res_str, i - 1) = deprecated_header[i]

\* A flush that queues the first pending LOD level only.
FlushFirstPendingLOD(t, mesh_params) ==
    IF mesh_params \in DOMAIN t.mPendingLOD
    THEN [t EXCEPT
            !.mLODReqQ = Append(@, LODRequest(mesh_params, t.mPendingLOD[mesh_params][1])),
            !.mPendingLOD = Erase(@, mesh_params)]
    ELSE t

\* The pending LOD levels of mesh_params become LOD requests.
FlushPendingLOD(t, mesh_params) ==
    IF mesh_params \in DOMAIN t.mPendingLOD
    THEN [t EXCEPT
            !.mLODReqQ = @ \o [i \in 1..Len(t.mPendingLOD[mesh_params]) |->
                                 LODRequest(mesh_params, t.mPendingLOD[mesh_params][i])],
            !.mPendingLOD = Erase(@, mesh_params)]
    ELSE t

\* LLMeshRepoThread::headerReceived: <<success, worker record>>
headerReceived(t, mesh_params, data, data_size) ==
    LET mesh_id == getSculptID(mesh_params)
        legacy == data_size > 0 /\ HasDeprecatedHeader(data)
        skip == IF legacy THEN Len(deprecated_header) + 1 ELSE 0
        res_str == BufSub(data, skip, data_size)
        parsed == fromBinary(res_str)
        header == IF data_size > 0 THEN parsed.header ELSE Header404
        header_size == IF data_size > 0 THEN skip + parsed.tellg ELSE 0
        stored == [t EXCEPT !.mMeshHeaderSize = Put(@, mesh_id, header_size),
                            !.mMeshHeader = Put(@, mesh_id, header)]
    IN IF data_size > 0 /\ ~parsed.ok
       THEN <<FALSE, t>>
       ELSE <<TRUE, FlushPendingLOD(stored, mesh_params)>>

\* getActualMeshLOD's search down: the first i, i-1, .. 0 with a block, or -1.
RECURSIVE SearchDown(_, _)
SearchDown(header, i) ==
    IF i < 0 THEN -1
    ELSE IF header.lod[i].size > 0 THEN i
    ELSE SearchDown(header, i - 1)

\* getActualMeshLOD's search up: the first i, i+1, .. 3 with a block, or -1.
RECURSIVE SearchUp(_, _)
SearchUp(header, i) ==
    IF ~(i < 4) THEN -1
    ELSE IF header.lod[i].size > 0 THEN i
    ELSE SearchUp(header, i + 1)

\* A search that looks up before it looks down.
getActualMeshLODUpFirst(header, lod) ==
    LET l == llclamp(lod, 0, 3)
    IN IF header.has404 \/ header.version > MAX_MESH_VERSION THEN -1
       ELSE IF header.lod[l].size > 0 THEN l
       ELSE IF SearchUp(header, l + 1) # -1 THEN SearchUp(header, l + 1)
       ELSE SearchDown(header, l - 1)

\* LLMeshRepository::getActualMeshLOD: the LOD that can be had for lod, or -1.
getActualMeshLOD(header, lod) ==
    LET l == llclamp(lod, 0, 3)
    IN IF header.has404 \/ header.version > MAX_MESH_VERSION THEN -1
       ELSE IF header.lod[l].size > 0 THEN l
       ELSE IF SearchDown(header, l - 1) # -1 THEN SearchDown(header, l - 1)
       ELSE SearchUp(header, l + 1)

\* LLMeshRepoThread::lodReceived: <<success, worker record>>
lodReceived(t, mesh_params, lod, data, data_size) ==
    LET unpacked == unpackVolumeFaces(BufSub(data, 0, data_size))
        mesh == [mVolume |-> [mDetail |-> getVolumeScaleFromDetail(lod),
                              faces |-> unpacked.faces],
                 mMeshParams |-> mesh_params, mLOD |-> lod]
    IN IF unpacked.ok
       THEN <<TRUE, [t EXCEPT !.mLoadedQ = Append(@, mesh)]>>
       ELSE <<FALSE, t>>

\* The handle of a new request: the least one not in use.
NewHandle(set) ==
    CHOOSE n \in 1..(Cardinality(set) + 1) : \A h \in set : h.mHttpHandle # n

LLMeshHeaderHandler(mesh_params, handle) ==
    [type |-> "header", mMeshParams |-> mesh_params, mLOD |-> -1,
     mOffset |-> 0, mRequestedBytes |-> MESH_HEADER_SIZE, mHttpHandle |-> handle]

LLMeshLODHandler(mesh_params, lod, offset, requested_bytes, handle) ==
    [type |-> "lod", mMeshParams |-> mesh_params, mLOD |-> lod,
     mOffset |-> offset, mRequestedBytes |-> requested_bytes, mHttpHandle |-> handle]

\* A destructor that leaves the counter as it is.
decActiveRequestsNone(t) == t

\* LLMeshRepoThread::incActiveHeaderRequests and the three like it, called
\* by the constructors and destructors of the header and LOD handlers.
incActiveHeaderRequests(t) == [t EXCEPT !.sActiveHeaderRequests = @ + 1]
decActiveHeaderRequests(t) == [t EXCEPT !.sActiveHeaderRequests = @ - 1]
incActiveLODRequests(t) == [t EXCEPT !.sActiveLODRequests = @ + 1]
decActiveLODRequests(t) == [t EXCEPT !.sActiveLODRequests = @ - 1]

\* ~LLMeshHeaderHandler of a handler that was not processed: the request is
\* queued again and the counter lowered.
DeleteUnprocessedHeaderHandler(t, mesh_params) ==
    decActiveHeaderRequests([t EXCEPT !.mHeaderReqQ = Append(@, mesh_params)])

\* ~LLMeshLODHandler of a handler that was not processed (lockAndLoadMeshLOD).
DeleteUnprocessedLODHandler(t, mesh_params, lod) ==
    decActiveLODRequests(loadMeshLOD(t, mesh_params, lod))

\* LLMeshRepoThread::fetchMeshHeader: <<retval, worker record, outcome>>.
\* url_ok: constructUrl gave a URL; handle_ok: getByteRange gave a handle.
fetchMeshHeader(t, mesh_params, url_ok, handle_ok) ==
    LET mesh_id == getSculptID(mesh_params)
        file == t.vfs[mesh_id]
        bytes == llmin(file.size, MESH_HEADER_SIZE)
        cached == headerReceived(t, mesh_params, BufSub(file, 0, bytes), bytes)
        handler == LLMeshHeaderHandler(mesh_params, NewHandle(t.mHttpRequestSet))
    IN IF file.size > 0 /\ cached[1]
       THEN <<TRUE, cached[2], "cache">>
       ELSE IF ~url_ok
       THEN <<TRUE, t, "nourl">>
       ELSE IF ~handle_ok
       THEN <<FALSE, DeleteUnprocessedHeaderHandler(incActiveHeaderRequests(t), mesh_params),
              "invalid">>
       ELSE <<TRUE,
              [incActiveHeaderRequests(t) EXCEPT !.mHttpRequestSet = @ \cup {handler}],
              "http">>

\* The test without the version.
CanFetchAnyVersion(version, offset, size) ==
    offset >= 0 /\ size > 0

\* fetchMeshLOD's test that the header describes a block it can fetch.
CanFetch(version, offset, size) ==
    version <= MAX_MESH_VERSION /\ offset >= 0 /\ size > 0

\* The names of the LOD blocks in a header, by LOD level.
header_lod == [l \in 0..3 |->
    CASE l = 0 -> "lowest_lod" [] l = 1 -> "low_lod" [] l = 2 -> "medium_lod"
      [] OTHER -> "high_lod"]

\* A fetchMeshLOD that asks for a block without a look at the stored header.
fetchMeshLODBlind(t, mesh_params, lod, url_ok, handle_ok) ==
    <<TRUE,
      [t EXCEPT !.mHttpRequestSet = @ \cup
                    {LLMeshLODHandler(mesh_params, lod, 0, MESH_HEADER_SIZE,
                                      NewHandle(t.mHttpRequestSet))},
                !.sActiveLODRequests = @ + 1],
      "http">>

\* LLMeshRepoThread::fetchMeshLOD: <<retval, worker record, outcome>>
fetchMeshLOD(t, mesh_params, lod, url_ok, handle_ok) ==
    LET mesh_id == getSculptID(mesh_params)
        header_size == HeaderSizeOf(t, mesh_id)
        version == t.mMeshHeader[mesh_id].version
        offset == header_size + t.mMeshHeader[mesh_id].lod[lod].offset
        size == t.mMeshHeader[mesh_id].lod[lod].size
        file == t.vfs[mesh_id]
        buffer == BufSub(file, offset, size)
        cached == lodReceived(t, mesh_params, lod, buffer, size)
        handler == LLMeshLODHandler(mesh_params, lod, offset, size,
                                    NewHandle(t.mHttpRequestSet))
        unavailable == [t EXCEPT !.mUnavailableQ = Append(@, LODRequest(mesh_params, lod))]
    IN IF ~(header_size > 0)
       THEN <<TRUE, t, "dropped">>
       ELSE IF lod \notin DOMAIN header_lod
       THEN <<TRUE, t, "undefined">>
       ELSE IF ~CanFetch(version, offset, size)
       THEN <<TRUE, unavailable, "unavailable">>
       ELSE IF file.size >= offset + size /\ ~IsZero(buffer, size) /\ cached[1]
       THEN <<TRUE, cached[2], "cache">>
       ELSE IF ~url_ok
       THEN <<TRUE, unavailable, "nourl">>
       ELSE IF ~handle_ok
       THEN <<FALSE, DeleteUnprocessedLODHandler(incActiveLODRequests(t), mesh_params, lod),
              "invalid">>
       ELSE <<TRUE,
              [incActiveLODRequests(t) EXCEPT !.mHttpRequestSet = @ \cup {handler}],
              "http">>

(***************************************************************************)
(* HTTP completions (LLMeshHandlerBase::onCompleted), dispatched by        *)
(* mHttpRequest->update() at the top of the worker's loop.                 *)
(***************************************************************************)
\* The failed statuses the transport reports in the model: HTTP 404, 499 and
\* 503, and curl's URL_MALFORMAT (3) and OPERATION_TIMEDOUT (28).
FailedStatuses ==
    {HttpStatus("http", 404), HttpStatus("http", 499), HttpStatus("http", 503),
     HttpStatus("curl", 3), HttpStatus("curl", 28)}

\* is_retryable, of a failed status
is_retryable(status) ==
    \/ status.mType = "http" /\ status.mStatus >= 499 /\ status.mStatus <= 599
    \/ status.mType = "curl" /\ status.mStatus \in {7, 5, 6, 55, 56, 25, 28, 34, 18}
    \/ status.mType = "llcore" /\ status.mStatus = "HE_INV_CONTENT_RANGE_HDR"

ZeroBuf(n) == [size |-> n, data |-> [i \in {} |-> 0]]

\* The bodies a successful response to handler h may carry: the bytes asked
\* for, no bytes, or bytes that do not parse.
Bodies(h) ==
    LET range == BufSub(asset[getSculptID(h.mMeshParams)], h.mOffset, h.mRequestedBytes)
    IN {range, EmptyBuf, GarbageBuf(llmax(1, range.size))}

\* LLMeshHeaderHandler::processFailure
HeaderProcessFailure(t, h, status) ==
    IF is_retryable(status)
    THEN [t EXCEPT !.mHeaderReqQ = Append(@, h.mMeshParams)]
    ELSE t

\* The bytes to reserve in the cache file for the blocks a header lists.
ReservedBytes(header, header_bytes) ==
    LET lods == {header.lod[i].offset + header.lod[i].size : i \in 0..3}
        lod_bytes0 == CHOOSE m \in lods \cup {0} : \A x \in lods \cup {0} : m >= x
        lod_bytes1 == llmax(lod_bytes0, header.skin.offset + header.skin.size)
        lod_bytes == llmax(lod_bytes1,
                           header.physics_convex.offset + header.physics_convex.size)
    IN lod_bytes + header_bytes

\* A write of the response data that leaves the rest of the file as it was.
ZeroFillNone(file, tell, bytes) == file

\* processData's loop that zeroes the rest of the file, from the position
\* tell (at most bytes) to bytes, a block of MESH_HEADER_SIZE at a time.
RECURSIVE ZeroFill(_, _, _)
ZeroFill(file, tell, bytes) ==
    IF bytes - tell > MESH_HEADER_SIZE
    THEN ZeroFill(BufWrite(file, tell, ZeroBuf(MESH_HEADER_SIZE), MESH_HEADER_SIZE),
                  tell + MESH_HEADER_SIZE, bytes)
    ELSE IF bytes - tell > 0
    THEN BufWrite(file, tell, ZeroBuf(bytes - tell), bytes - tell)
    ELSE file

\* LLMeshHeaderHandler::processData: <<worker record, outcome>>.
\* vfs_ok: the cache can reserve the file (LLVFile::setMaxSize).
HeaderProcessData(t, h, data, data_size, vfs_ok) ==
    LET mesh_id == getSculptID(h.mMeshParams)
        received == headerReceived(t, h.mMeshParams, data, data_size)
        t1 == received[2]
        header == t1.mMeshHeader[mesh_id]
        bytes == ReservedBytes(header, t1.mMeshHeaderSize[mesh_id])
        size == llmin(data_size, bytes)
        file == t1.vfs[mesh_id]
        zeroed == ZeroFill(BufWrite(file, 0, data, size), size, bytes)
    IN IF ~received[1]
       THEN <<t, "parsefail">>
       ELSE IF ~(data_size > 0)
       THEN <<t1, "404">>
       ELSE IF header.version <= MAX_MESH_VERSION /\ (file.size >= bytes \/ vfs_ok)
       THEN <<[t1 EXCEPT !.vfs[mesh_id] = zeroed], "stored">>
       ELSE <<t1, "stored">>

\* A failure handler that drops the request whatever the status.
LODProcessFailureDrop(t, h, status) == t

\* LLMeshLODHandler::processFailure
LODProcessFailure(t, h, status) ==
    IF is_retryable(status)
    THEN loadMeshLOD(t, h.mMeshParams, h.mLOD)
    ELSE t

\* LLMeshLODHandler::processData: <<worker record, outcome>>
LODProcessData(t, h, data, data_size) ==
    LET mesh_id == getSculptID(h.mMeshParams)
        received == lodReceived(t, h.mMeshParams, h.mLOD, data, data_size)
        t1 == received[2]
        file == t1.vfs[mesh_id]
        offset == h.mOffset
        size == h.mRequestedBytes
    IN IF ~received[1]
       THEN <<t, "parsefail">>
       ELSE IF file.size >= offset + size
       THEN <<[t1 EXCEPT !.vfs[mesh_id] = BufWrite(file, offset, data, size)], "cached">>
       ELSE <<t1, "loaded">>

\* onCompleted releases the handler; its destructor lowers the counter.
ReleaseHandler(t, h) ==
    LET released == [t EXCEPT !.mHttpRequestSet = @ \ {h}]
    IN CASE h.type = "header" -> decActiveHeaderRequests(released)
         [] h.type = "lod" -> decActiveLODRequests(released)
         [] OTHER -> released

AuxUnchanged ==
    UNCHANGED <<mLoadingAux, mPendingAuxRequests, mAuxRequests, uncounted,
                mSkinMap, mDecompositionMap>>

QueuesUnchanged == UNCHANGED <<mSkinInfoQ, mDecompositionQ>>

WorkerUnchanged ==
    /\ UNCHANGED <<mLoadingMeshes, mPendingRequests, asset, nLoadMesh>>
    /\ AuxUnchanged

\* A header fetch fails.
HeaderFailed(h, status) ==
    /\ UploadsUnchanged
    /\ pc = "update" /\ h \in mHttpRequestSet /\ h.type = "header"
    /\ SetThread(ReleaseHandler(HeaderProcessFailure(Thread, h, status), h))
    /\ event' = FailEvent("headerCompleted", h.mMeshParams, -1, status,
                          IF is_retryable(status) THEN "retry" ELSE "discard")
    /\ UNCHANGED <<mWaiting, signaled, pc, throttled, nInvalid, written>>
    /\ WorkerUnchanged

\* A header fetch succeeds with some body.
HeaderSucceeded(h, body, vfs_ok) ==
    /\ UploadsUnchanged
    /\ pc = "update" /\ h \in mHttpRequestSet /\ h.type = "header"
    /\ LET done == HeaderProcessData(Thread, h, body, body.size, vfs_ok)
       IN /\ SetThread(ReleaseHandler(done[1], h))
          /\ event' = Event("headerCompleted", h.mMeshParams, -1, done[2])
    /\ UNCHANGED <<mWaiting, signaled, pc, throttled, nInvalid, written>>
    /\ WorkerUnchanged

\* A LOD fetch fails.
LODFailed(h, status) ==
    /\ UploadsUnchanged
    /\ pc = "update" /\ h \in mHttpRequestSet /\ h.type = "lod"
    /\ SetThread(ReleaseHandler(LODProcessFailure(Thread, h, status), h))
    /\ event' = FailEvent("lodCompleted", h.mMeshParams, h.mLOD, status,
                          IF is_retryable(status) THEN "retry" ELSE "discard")
    /\ UNCHANGED <<mWaiting, signaled, pc, throttled, nInvalid, written>>
    /\ WorkerUnchanged

\* A LOD fetch succeeds with some body.
LODSucceeded(h, body) ==
    /\ UploadsUnchanged
    /\ pc = "update" /\ h \in mHttpRequestSet /\ h.type = "lod"
    /\ LET done == LODProcessData(Thread, h, body, body.size)
       IN /\ SetThread(ReleaseHandler(done[1], h))
          /\ event' = Event("lodCompleted", h.mMeshParams, h.mLOD, done[2])
          /\ written' = IF done[2] = "cached"
                        THEN Put(written, <<getSculptID(h.mMeshParams), h.mLOD>>,
                                 BufSub(body, 0, h.mRequestedBytes))
                        ELSE written
    /\ UNCHANGED <<mWaiting, signaled, pc, throttled, nInvalid>>
    /\ WorkerUnchanged

(***************************************************************************)
(* LLMeshRepoThread::run                                                   *)
(***************************************************************************)
\* The water marks notifyLoadedMeshes derives from the setting (GetMesh2).
sMaxConcurrentRequests == MeshMaxConcurrentRequests \div 4
sRequestHighWater ==
    llclamp(5 * sMaxConcurrentRequests, REQUEST_HIGH_WATER_MIN, REQUEST_HIGH_WATER_MAX)
sRequestLowWater ==
    llclamp(sRequestHighWater \div 2, REQUEST_LOW_WATER_MIN, REQUEST_LOW_WATER_MAX)

\* The handle getByteRange returns may be invalid (at most MaxInvalidHandles times).
HandleResults == IF nInvalid < MaxInvalidHandles THEN BOOLEAN ELSE {TRUE}

\* After an HTTP GET was issued the per-second count may have reached its cap.
ThrottledAfter(outcome) == IF outcome = "http" THEN {throttled, TRUE} ELSE {throttled}

\* LLMeshSkinInfoHandler, LLMeshDecompositionHandler, LLMeshPhysicsShapeHandler
LLMeshAuxHandler(class, mesh_id, offset, requested_bytes, handle) ==
    [type |-> class, mMeshID |-> mesh_id,
     mOffset |-> offset, mRequestedBytes |-> requested_bytes, mHttpHandle |-> handle]

\* unzip_llsd: the block inflates and parses.
unzip_llsd(data, data_size) == BufByte(data, 0) \in 1..99

\* LLMeshSkinInfo(skin), with its mesh id
LLMeshSkinInfo(mesh_id, skin) == [mMeshID |-> mesh_id, skin |-> skin]

\* LLModel::Decomposition: the base hull with the hulls of a convex
\* decomposition block, the mesh of the base hull, and the physics shape mesh.
Decomposition(mesh_id, hull, hull_mesh, shape) ==
    [mMeshID |-> mesh_id, mBaseHull |-> hull, mBaseHullMesh |-> hull_mesh,
     mPhysicsShapeMesh |-> shape]

\* LLMeshRepoThread::skinInfoReceived: <<retval, worker record>>
skinInfoReceived(t, mesh_id, data, data_size) ==
    IF data_size > 0 /\ ~unzip_llsd(data, data_size)
    THEN <<FALSE, t>>
    ELSE <<TRUE, [t EXCEPT !.mSkinInfoQ =
                     Append(@, LLMeshSkinInfo(mesh_id, BufSub(data, 0, data_size)))]>>

\* LLMeshRepoThread::decompositionReceived: <<retval, worker record>>
decompositionReceived(t, mesh_id, data, data_size) ==
    IF data_size > 0 /\ ~unzip_llsd(data, data_size)
    THEN <<FALSE, t>>
    ELSE <<TRUE, [t EXCEPT !.mDecompositionQ =
                     Append(@, Decomposition(mesh_id, BufSub(data, 0, data_size),
                                             EmptyBuf, EmptyBuf))]>>

\* LLMeshRepoThread::physicsShapeReceived: <<retval, worker record>>.  data is
\* NULL where data_size is 0.
physicsShapeReceived(t, mesh_id, data, data_size) ==
    LET shape == IF data_size > 0 /\ unpackVolumeFaces(data).ok
                 THEN unpackVolumeFaces(data).faces
                 ELSE EmptyBuf
    IN <<TRUE, [t EXCEPT !.mDecompositionQ =
                   Append(@, Decomposition(mesh_id, EmptyBuf, EmptyBuf, shape))]>>

\* The receive routine of a class.
auxReceived(t, class, mesh_id, data, data_size) ==
    CASE class = "Skin" -> skinInfoReceived(t, mesh_id, data, data_size)
      [] class = "Decomposition" -> decompositionReceived(t, mesh_id, data, data_size)
      [] OTHER -> physicsShapeReceived(t, mesh_id, data, data_size)

\* An auxiliary fetch that does not test the high-water mark itself.
fetchMeshAuxUnbounded(t, class, mesh_id, url_ok, handle_ok) ==
    LET header_size == HeaderSizeOf(t, mesh_id)
        version == t.mMeshHeader[mesh_id].version
        offset == header_size + t.mMeshHeader[mesh_id][AuxBlock(class)].offset
        size == t.mMeshHeader[mesh_id][AuxBlock(class)].size
        file == t.vfs[mesh_id]
        buffer == BufSub(file, offset, size)
        received == auxReceived(t, class, mesh_id, buffer, size)
        handler == LLMeshAuxHandler(class, mesh_id, offset, size,
                                    NewHandle(t.mHttpRequestSet))
    IN IF mesh_id \notin DOMAIN t.mMeshHeader
       THEN <<FALSE, t, "noheader">>
       ELSE IF ~(header_size > 0)
       THEN <<TRUE, t, "dropped">>
       ELSE IF ~CanFetch(version, offset, size)
       THEN IF class = "PhysicsShape"
            THEN <<TRUE, physicsShapeReceived(t, mesh_id, EmptyBuf, 0)[2], "null">>
            ELSE <<TRUE, t, "none">>
       ELSE IF file.size >= offset + size /\ ~IsZero(buffer, size) /\ received[1]
       THEN <<TRUE, received[2], "cache">>
       ELSE IF throttled
       THEN <<FALSE, t, "wait">>
       ELSE IF ~url_ok
       THEN <<TRUE, t, "nourl">>
       ELSE IF ~handle_ok
       THEN <<FALSE, t, "invalid">>
       ELSE <<TRUE, [t EXCEPT !.mHttpRequestSet = @ \cup {handler}], "http">>

\* LLMeshRepoThread::fetchMeshSkinInfo, fetchMeshDecomposition and
\* fetchMeshPhysicsShape, which differ in the header block they ask for and
\* in the receive routine: <<retval, worker record, outcome>>.  None of the
\* three adds to count.
fetchMeshAux(t, class, mesh_id, url_ok, handle_ok) ==
    LET header_size == HeaderSizeOf(t, mesh_id)
        version == t.mMeshHeader[mesh_id].version
        offset == header_size + t.mMeshHeader[mesh_id][AuxBlock(class)].offset
        size == t.mMeshHeader[mesh_id][AuxBlock(class)].size
        file == t.vfs[mesh_id]
        buffer == BufSub(file, offset, size)
        received == auxReceived(t, class, mesh_id, buffer, size)
        handler == LLMeshAuxHandler(class, mesh_id, offset, size,
                                    NewHandle(t.mHttpRequestSet))
    IN IF mesh_id \notin DOMAIN t.mMeshHeader
       THEN <<FALSE, t, "noheader">>
       ELSE IF ~(header_size > 0)
       THEN <<TRUE, t, "dropped">>
       ELSE IF ~CanFetch(version, offset, size)
       THEN IF class = "PhysicsShape"
            THEN <<TRUE, physicsShapeReceived(t, mesh_id, EmptyBuf, 0)[2], "null">>
            ELSE <<TRUE, t, "none">>
       ELSE IF file.size >= offset + size /\ ~IsZero(buffer, size) /\ received[1]
       THEN <<TRUE, received[2], "cache">>
       ELSE IF throttled \/ Cardinality(t.mHttpRequestSet) >= sRequestHighWater
       THEN <<FALSE, t, "wait">>
       ELSE IF ~url_ok
       THEN <<TRUE, t, "nourl">>
       ELSE IF ~handle_ok
       THEN <<FALSE, t, "invalid">>
       ELSE <<TRUE, [t EXCEPT !.mHttpRequestSet = @ \cup {handler}], "http">>

\* One of run()'s last three blocks: every request of the set is tried, in
\* the set's order, and the ones whose fetch returns false stay.  ids: the
\* requests still to try; the result holds the worker record, the
\* incomplete requests, and the numbers of GETs issued and invalid handles.
RECURSIVE ScanAux(_, _, _, _, _)
ScanAux(t, class, ids, url_ok, handle_ok) ==
    LET first == CHOOSE i \in DOMAIN AuxMeshIds :
                    /\ AuxMeshIds[i] \in ids
                    /\ \A j \in 1..(i - 1) : AuxMeshIds[j] \notin ids
        mesh_id == AuxMeshIds[first]
        fetched == fetchMeshAux(t, class, mesh_id, url_ok, handle_ok)
        rest == ScanAux(fetched[2], class, ids \ {mesh_id}, url_ok, handle_ok)
    IN IF ids = {}
       THEN [t |-> t, incomplete |-> {}, gets |-> 0, invalid |-> 0]
       ELSE [t |-> rest.t,
             incomplete |-> rest.incomplete \cup
                            (IF fetched[1] THEN {} ELSE {mesh_id}),
             gets |-> rest.gets + (IF fetched[3] = "http" THEN 1 ELSE 0),
             invalid |-> rest.invalid + (IF fetched[3] = "invalid" THEN 1 ELSE 0)]

\* Where run() goes on after the header loop (from = 0) or after the block
\* of the from-th class: to the block of the next class whose request set is
\* not empty while the count and the high-water mark allow a request, else
\* to the top of the loop.  A block whose test fails takes no step.
NextScan(from, requests, http_set) ==
    LET open == {i \in DOMAIN AuxClasses :
                    /\ i > from
                    /\ requests[AuxClasses[i]] # {}
                    /\ ~throttled
                    /\ Cardinality(http_set) < sRequestHighWater}
    IN IF open = {} THEN "update"
       ELSE AuxClasses[CHOOSE i \in open : \A j \in open : i <= j]

\* All ready notifications were dispatched: the worker waits on mSignal.
UpdateDone ==
    /\ UploadsUnchanged
    /\ pc = "update" /\ ~isQuitting
    /\ pc' = "wait"
    /\ mWaiting' = TRUE
    /\ event' = Event("wait", "-", -1, "-")
    /\ UNCHANGED <<mLoadingMeshes, mPendingRequests, mMeshHeader, mMeshHeaderSize,
                   mHeaderReqQ, mLODReqQ, mPendingLOD, mLoadedQ, mUnavailableQ,
                   mHttpRequestSet, sActiveHeaderRequests, sActiveLODRequests,
                   signaled, throttled, vfs, asset, nInvalid, nLoadMesh,
                   written>>
    /\ AuxUnchanged
    /\ QueuesUnchanged

\* mSignal->wait() returns.  If a second has gone by the count is cleared,
\* else the retries of the completed requests are added to it (retries_cap:
\* that takes it to the cap).
Wake(second_passed, retries_cap) ==
    /\ UploadsUnchanged
    /\ pc = "wait" /\ signaled /\ ~isQuitting
    /\ pc' = "lod"
    /\ mWaiting' = FALSE
    /\ signaled' = FALSE
    /\ throttled' = IF second_passed THEN FALSE ELSE (throttled \/ retries_cap)
    /\ uncounted' = IF second_passed THEN 0 ELSE uncounted
    /\ event' = Event("wake", "-", -1, "-")
    /\ UNCHANGED <<mLoadingMeshes, mPendingRequests, mMeshHeader, mMeshHeaderSize,
                   mHeaderReqQ, mLODReqQ, mPendingLOD, mLoadedQ, mUnavailableQ,
                   mHttpRequestSet, sActiveHeaderRequests, sActiveLODRequests,
                   vfs, asset, nInvalid, nLoadMesh,
                   written, mLoadingAux, mPendingAuxRequests, mAuxRequests,
                   mSkinMap, mDecompositionMap>>
    /\ QueuesUnchanged

\* The condition of the two request loops, apart from the queue.
MayRequest == ~throttled /\ Cardinality(mHttpRequestSet) < sRequestHighWater

\* What a call of fetchMeshLOD may do.  With a lod that has no name in
\* header_lod the read of header_lod[lod] is undefined: the name read is not
\* in the header (the request is reported unavailable), or the read faults.
LODFetchResults(fetched, t, req) ==
    IF fetched[3] = "undefined"
    THEN {<<TRUE, [t EXCEPT !.mUnavailableQ = Append(@, req)], "unavailable">>,
          <<TRUE, t, "crashed">>}
    ELSE {fetched}

\* One turn of the LOD request loop.
ProcessLODRequest(url_ok, handle_ok) ==
    /\ UploadsUnchanged
    /\ pc = "lod" /\ mLODReqQ # << >> /\ MayRequest
    /\ LET req == Head(mLODReqQ)
           popped == [Thread EXCEPT !.mLODReqQ = Tail(@)]
       IN \E fetched \in LODFetchResults(
                            fetchMeshLOD(popped, req.mMeshParams, req.mLOD, url_ok, handle_ok),
                            popped, req) :
          /\ \E t \in {IF fetched[1] THEN fetched[2]
                        ELSE [fetched[2] EXCEPT !.mLODReqQ = Append(@, req)]} : SetThread(t)
          /\ event' = Event("fetchMeshLOD", req.mMeshParams, req.mLOD, fetched[3])
          /\ nInvalid' = IF fetched[3] = "invalid" THEN nInvalid + 1 ELSE nInvalid
          /\ throttled' \in ThrottledAfter(fetched[3])
          /\ pc' = IF fetched[3] = "crashed" THEN "crashed" ELSE pc
    /\ UNCHANGED <<mWaiting, signaled, written>>
    /\ WorkerUnchanged

\* The LOD request loop ends.
LODLoopDone ==
    /\ UploadsUnchanged
    /\ pc = "lod" /\ ~(mLODReqQ # << >> /\ MayRequest)
    /\ pc' = "header"
    /\ event' = Event("lodLoopDone", "-", -1, "-")
    /\ UNCHANGED <<mLoadingMeshes, mPendingRequests, mMeshHeader, mMeshHeaderSize,
                   mHeaderReqQ, mLODReqQ, mPendingLOD, mLoadedQ, mUnavailableQ,
                   mHttpRequestSet, sActiveHeaderRequests, sActiveLODRequests,
                   mWaiting, signaled, throttled, vfs, asset, nInvalid, nLoadMesh,
                   written>>
    /\ AuxUnchanged
    /\ QueuesUnchanged

\* One turn of the header request loop.
ProcessHeaderRequest(url_ok, handle_ok) ==
    /\ UploadsUnchanged
    /\ pc = "header" /\ mHeaderReqQ # << >> /\ MayRequest
    /\ LET req == Head(mHeaderReqQ)
           popped == [Thread EXCEPT !.mHeaderReqQ = Tail(@)]
       IN \E fetched \in {fetchMeshHeader(popped, req, url_ok, handle_ok)} :
          /\ \E t \in {IF fetched[1] THEN fetched[2]
                        ELSE [fetched[2] EXCEPT !.mHeaderReqQ = Append(@, req)]} : SetThread(t)
          /\ event' = Event("fetchMeshHeader", req, -1, fetched[3])
          /\ nInvalid' = IF fetched[3] = "invalid" THEN nInvalid + 1 ELSE nInvalid
          /\ throttled' \in ThrottledAfter(fetched[3])
    /\ UNCHANGED <<mWaiting, signaled, pc, written>>
    /\ WorkerUnchanged

\* The header request loop ends: back to the top of run()'s loop.
HeaderLoopDone ==
    /\ UploadsUnchanged
    /\ pc = "header" /\ ~(mHeaderReqQ # << >> /\ MayRequest)
    /\ pc' = NextScan(0, mAuxRequests, mHttpRequestSet)
    /\ event' = Event("headerLoopDone", "-", -1, "-")
    /\ UNCHANGED <<mLoadingMeshes, mPendingRequests, mMeshHeader, mMeshHeaderSize,
                   mHeaderReqQ, mLODReqQ, mPendingLOD, mLoadedQ, mUnavailableQ,
                   mHttpRequestSet, sActiveHeaderRequests, sActiveLODRequests,
                   mWaiting, signaled, throttled, vfs, asset, nInvalid, nLoadMesh,
                   written>>
    /\ AuxUnchanged
    /\ QueuesUnchanged

\* The block of run() that scans mSkinRequests, mDecompositionRequests or
\* mPhysicsShapeRequests.
ScanRequests(class, url_ok, handle_ok) ==
    /\ UploadsUnchanged
    /\ pc = class
    /\ \E scanned \in {ScanAux(Thread, class, mAuxRequests[class], url_ok, handle_ok)} :
          /\ SetThread(scanned.t)
          /\ mAuxRequests' = [mAuxRequests EXCEPT ![class] = scanned.incomplete]
          /\ uncounted' = uncounted + scanned.gets
          /\ nInvalid' = nInvalid + scanned.invalid
          /\ pc' = NextScan(CHOOSE i \in DOMAIN AuxClasses : AuxClasses[i] = class,
                            [mAuxRequests EXCEPT ![class] = scanned.incomplete],
                            scanned.t.mHttpRequestSet)
          /\ event' = Event("scan", class, -1,
                            IF scanned.gets > 0 THEN "http" ELSE "none")
    /\ UNCHANGED <<mLoadingMeshes, mPendingRequests, asset, nLoadMesh,
                   mWaiting, signaled, throttled, written,
                   mLoadingAux, mPendingAuxRequests, mSkinMap, mDecompositionMap>>

\* The bodies a skin info, decomposition or physics shape fetch may return:
\* the byte range asked for, nothing, and bytes that do not parse.
AuxBodies(h) ==
    LET range == BufSub(asset[h.mMeshID], h.mOffset, h.mRequestedBytes)
    IN {range, EmptyBuf, GarbageBuf(llmax(1, range.size))}

\* LLMeshSkinInfoHandler::processData, LLMeshDecompositionHandler::processData
\* and LLMeshPhysicsShapeHandler::processData: <<worker record, outcome>>
AuxProcessData(t, h, data, data_size) ==
    LET received == auxReceived(t, h.type, h.mMeshID, data, data_size)
        t1 == received[2]
        file == t1.vfs[h.mMeshID]
        offset == h.mOffset
        size == h.mRequestedBytes
    IN IF ~received[1]
       THEN <<t, "parsefail">>
       ELSE IF file.size >= offset + size
       THEN <<[t1 EXCEPT !.vfs[h.mMeshID] = BufWrite(file, offset, data, size)], "cached">>
       ELSE <<t1, "received">>

\* A skin info, decomposition or physics shape fetch fails: processFailure
\* puts the mesh id back into the worker's request set when the status is
\* retryable.
AuxFailed(h, status) ==
    /\ UploadsUnchanged
    /\ pc = "update" /\ h \in mHttpRequestSet /\ h.type \in AuxClassSet
    /\ SetThread(ReleaseHandler(Thread, h))
    /\ mAuxRequests' = IF is_retryable(status)
                       THEN [mAuxRequests EXCEPT ![h.type] = @ \cup {h.mMeshID}]
                       ELSE mAuxRequests
    /\ event' = FailEvent("auxCompleted", h.type, -1, status,
                          IF is_retryable(status) THEN "retry" ELSE "discard")
    /\ UNCHANGED <<mLoadingMeshes, mPendingRequests, asset, nLoadMesh,
                   mWaiting, signaled, pc, throttled, nInvalid, written,
                   mLoadingAux, mPendingAuxRequests, uncounted,
                   mSkinMap, mDecompositionMap>>

\* A skin info, decomposition or physics shape fetch succeeds with some body.
AuxSucceeded(h, body) ==
    /\ UploadsUnchanged
    /\ pc = "update" /\ h \in mHttpRequestSet /\ h.type \in AuxClassSet
    /\ LET done == AuxProcessData(Thread, h, body, body.size)
       IN /\ SetThread(ReleaseHandler(done[1], h))
          /\ event' = Event("auxCompleted", h.type, -1, done[2])
    /\ UNCHANGED <<mLoadingMeshes, mPendingRequests, asset, nLoadMesh,
                   mWaiting, signaled, pc, throttled, nInvalid, written,
                   mLoadingAux, mPendingAuxRequests, mAuxRequests, uncounted,
                   mSkinMap, mDecompositionMap>>

(***************************************************************************)
(* LLMeshRepository (main thread)                                          *)
(***************************************************************************)
\* LLMeshRepository::getSkinInfo, getDecomposition and fetchPhysicsShape:
\* when the repository does not have the block (known is false), the first
\* call for the mesh id queues a request.
RequestAux(class, mesh_id, known) ==
    /\ UploadsUnchanged
    /\ IF known
       THEN /\ UNCHANGED <<mLoadingAux, mPendingAuxRequests>>
            /\ event' = Event("request", class, -1, "known")
       ELSE IF mesh_id \in mLoadingAux[class]
       THEN /\ UNCHANGED <<mLoadingAux, mPendingAuxRequests>>
            /\ event' = Event("request", class, -1, "attached")
       ELSE /\ mLoadingAux' = [mLoadingAux EXCEPT ![class] = @ \cup {mesh_id}]
            /\ mPendingAuxRequests' =
                  [mPendingAuxRequests EXCEPT ![class] = Append(@, mesh_id)]
            /\ event' = Event("request", class, -1, "first")
    /\ UNCHANGED <<mLoadingMeshes, mPendingRequests, mMeshHeader, mMeshHeaderSize,
                   mHeaderReqQ, mLODReqQ, mPendingLOD, mLoadedQ, mUnavailableQ,
                   mHttpRequestSet, sActiveHeaderRequests, sActiveLODRequests,
                   mWaiting, signaled, pc, throttled, vfs, asset, nInvalid,
                   nLoadMesh, written, mAuxRequests, uncounted,
                   mSkinMap, mDecompositionMap>>
    /\ QueuesUnchanged

\* The skin info is known once it is in mSkinMap.
getSkinInfo(mesh_id) ==
    RequestAux("Skin", mesh_id, mesh_id \in DOMAIN mSkinMap)
\* The decomposition is fetched while the map has no record of the mesh or
\* the record has no base hull mesh.
getDecomposition(mesh_id) ==
    RequestAux("Decomposition", mesh_id,
               /\ mesh_id \in DOMAIN mDecompositionMap
               /\ mDecompositionMap[mesh_id].mBaseHullMesh # EmptyBuf)
\* The physics shape is fetched while the map has no record of the mesh or
\* the record has no physics shape mesh.
fetchPhysicsShape(mesh_id) ==
    RequestAux("PhysicsShape", mesh_id,
               /\ mesh_id \in DOMAIN mDecompositionMap
               /\ mDecompositionMap[mesh_id].mPhysicsShapeMesh # EmptyBuf)

\* A look-up that finds no request.
IsLoadingNever(detail, mesh_params) == FALSE

\* loadMesh's look-up of mesh_params in mLoadingMeshes[detail].
IsLoading(detail, mesh_params) == <<detail, mesh_params>> \in DOMAIN mLoadingMeshes

\* LLMeshRepository::loadMesh
loadMesh(vobj, mesh_params, detail) ==
    /\ UploadsUnchanged
    /\ nLoadMesh < MaxLoadMesh
    \* objects and volume params are interchangeable: the first call is O1's, for V1
    /\ (nLoadMesh = 0 => vobj = "O1" /\ mesh_params = "V1")
    /\ nLoadMesh' = nLoadMesh + 1
    /\ IF detail < 0 \/ detail > 4
       THEN /\ UNCHANGED <<mLoadingMeshes, mPendingRequests>>
            /\ event' = Event("loadMesh", mesh_params, detail, "rejected")
       ELSE IF IsLoading(detail, mesh_params)
       THEN \* a request is pending for this mesh: append the object id
            /\ mLoadingMeshes' = [mLoadingMeshes EXCEPT
                                    ![<<detail, mesh_params>>] = @ \cup {vobj}]
            /\ UNCHANGED mPendingRequests
            /\ event' = Event("loadMesh", mesh_params, detail, "attached")
       ELSE \* the first request for this mesh
            /\ mLoadingMeshes' = Put(mLoadingMeshes, <<detail, mesh_params>>, {vobj})
            /\ mPendingRequests' = Append(mPendingRequests, LODRequest(mesh_params, detail))
            /\ event' = Event("loadMesh", mesh_params, detail, "first")
    /\ UNCHANGED <<mMeshHeader, mMeshHeaderSize, mHeaderReqQ, mLODReqQ, mPendingLOD,
                   mLoadedQ, mUnavailableQ, mHttpRequestSet, sActiveHeaderRequests,
                   sActiveLODRequests, mWaiting, signaled, pc, throttled, vfs, asset,
                   nInvalid, written>>
    /\ AuxUnchanged
    /\ QueuesUnchanged

\* The scores a drawable can have (its radius over its camera distance), as
\* ordinals.  0 also is what an object that is not found, or has no
\* drawable, adds to max_score.
Scores == 0..2

\* The place of a volume parameter set in the order of LLVolumeParams::operator<.
ParamsOrder == <<"V1", "V2", "V3", "V4", "V5", "V6">> \o ActiveParams
ParamsRank(mesh_params) ==
    CHOOSE i \in DOMAIN ParamsOrder : ParamsOrder[i] = mesh_params

MaxOf(S) == CHOOSE m \in S : \A x \in S : m >= x

\* score_map after the loops over mLoadingMeshes[0..3]: every entry writes
\* the best score of its objects at its mesh id, so the entry that is
\* visited last (the highest detail, then the greatest parameter set) stays.
score_map(loading, cur_score) ==
    LET visited == {k \in DOMAIN loading : k[1] < 4}
    IN [mesh_id \in {getSculptID(k[2]) : k \in visited} |->
          LET entries == {k \in visited : getSculptID(k[2]) = mesh_id}
              last == CHOOSE k \in entries : \A j \in entries :
                         \/ j[1] < k[1]
                         \/ j[1] = k[1] /\ ParamsRank(j[2]) <= ParamsRank(k[2])
          IN MaxOf({0} \cup {cur_score[o] : o \in loading[last]})]

\* iter->mScore = score_map[iter->mMeshParams.getSculptID()] for every pending
\* request; operator[] gives a mesh id that is not in the map the score 0.
SetScores(reqs, scores) ==
    [i \in DOMAIN reqs |->
        [reqs[i] EXCEPT !.mScore =
            IF getSculptID(reqs[i].mMeshParams) \in DOMAIN scores
            THEN scores[getSculptID(reqs[i].mMeshParams)] ELSE 0]]

\* The subsets of S that have k elements.
RECURSIVE KSubsets(_, _)
KSubsets(S, k) ==
    IF k = 0 THEN {{}}
    ELSE UNION {{R \cup {x} : R \in KSubsets({y \in S : y > x}, k - 1)} : x \in S}

\* The requests of reqs at the places I, the best score first (requests of
\* one score in the order they had).
RECURSIVE ByScore(_, _)
ByScore(reqs, I) ==
    IF I = {} THEN << >>
    ELSE LET best == CHOOSE i \in I : \A j \in I :
                        \/ reqs[i].mScore > reqs[j].mScore
                        \/ reqs[i].mScore = reqs[j].mScore /\ i <= j
         IN <<reqs[best]>> \o ByScore(reqs, I \ {best})

\* The requests of reqs at the places I, in the order they had.
RECURSIVE InOrder(_, _)
InOrder(reqs, I) ==
    IF I = {} THEN << >>
    ELSE LET first == CHOOSE i \in I : \A j \in I : i <= j
         IN <<reqs[first]>> \o InOrder(reqs, I \ {first})

\* A partial_sort that leaves the list as it is.
partial_sort_none(reqs, middle) == {reqs}

\* std::partial_sort(begin, begin + middle, end, CompareScoreGreater()): the
\* lists it may leave.  The first middle places hold requests no worse than
\* any of the others, best first; which of several requests of one score
\* are among them is the implementation's choice.
partial_sort(reqs, middle) ==
    {ByScore(reqs, DOMAIN reqs \ rest) \o InOrder(reqs, rest) :
        rest \in {R \in KSubsets(DOMAIN reqs, Len(reqs) - middle) :
                    \A j \in R : \A i \in DOMAIN reqs \ R :
                        reqs[i].mScore >= reqs[j].mScore}}

\* A push_count that takes every pending request.
push_count_all(active_count, size) == size

\* A push_count without the low-water mark: a tick forwards whenever the
\* active requests are below the high-water mark.
push_count_high_water(active_count, size) ==
    IF active_count < sRequestHighWater
    THEN llmin(sRequestHighWater - active_count, size)
    ELSE 0

\* The number of pending requests one tick may forward, of size pending ones.
push_count(active_count, size) ==
    IF active_count < sRequestLowWater
    THEN llmin(sRequestHighWater - active_count, size)
    ELSE 0

\* The first n pending requests are handed to the worker, in order.
RECURSIVE ForwardRequests(_, _, _)
ForwardRequests(t, reqs, n) ==
    IF n = 0 \/ reqs = << >> THEN t
    ELSE ForwardRequests(loadMeshLOD(t, Head(reqs).mMeshParams, Head(reqs).mLOD),
                         Tail(reqs), n - 1)

\* A notification: what object vobj is told about (mesh_params, lod).  An
\* object told of an unavailable LOD has setVolume called if its volume
\* still is of that detail and those params.
Notification(kind, vobj, mesh_params, lod, set_volume) ==
    [kind |-> kind, vobj |-> vobj, mMeshParams |-> mesh_params, mLOD |-> lod,
     setVolume |-> set_volume]

\* A notifyMeshLoaded that tells one of the waiting objects only.
notifyMeshLoadedOne(st, mesh_params, volume, found) ==
    LET detail == getVolumeDetailFromScale(volume.mDetail)
        key == <<detail, mesh_params>>
        waiting == st.loading[key] \cap found
    IN IF key \in DOMAIN st.loading
       THEN [loading |-> Erase(st.loading, key),
             notified |-> st.notified \cup
                {Notification("loaded", vobj, mesh_params, detail, FALSE) :
                    vobj \in IF waiting = {} THEN {} ELSE {CHOOSE o \in waiting : TRUE}}]
       ELSE st

\* LLMeshRepository::notifyMeshLoaded.  st: the interest sets and the
\* notifications of this tick; found: the objects gObjectList.findObject finds.
notifyMeshLoaded(st, mesh_params, volume, found) ==
    LET detail == getVolumeDetailFromScale(volume.mDetail)
        key == <<detail, mesh_params>>
    IN IF key \in DOMAIN st.loading
       THEN [loading |-> Erase(st.loading, key),
             notified |-> st.notified \cup
                {Notification("loaded", vobj, mesh_params, detail, FALSE) :
                    vobj \in st.loading[key] \cap found}]
       ELSE st

\* LLMeshRepository::notifyMeshUnavailable.  obj_volume: the <<detail, params>>
\* of the volume each found object has.  past: what a read of mDetailScales
\* past its last entry gives (the read is undefined for a lod over 3).
notifyMeshUnavailable(st, mesh_params, lod, found, obj_volume, past) ==
    LET key == <<lod, mesh_params>>
        detail == IF lod \in DOMAIN mDetailScales
                  THEN getVolumeScaleFromDetail(lod) ELSE past
    IN IF key \in DOMAIN st.loading
       THEN [loading |-> Erase(st.loading, key),
             notified |-> st.notified \cup
                {Notification("unavailable", vobj, mesh_params, lod,
                              /\ getVolumeScaleFromDetail(obj_volume[vobj][1]) = detail
                              /\ obj_volume[vobj][2] = mesh_params) :
                    vobj \in st.loading[key] \cap found}]
       ELSE st

\* The values a read of mDetailScales past its last entry may give in a tick
\* that drains q: the scale of some detail, or a value no detail has.
ScalesPastEnd(q) ==
    IF \E i \in DOMAIN q : q[i].mLOD \notin DOMAIN mDetailScales
    THEN {0} \cup {mDetailScales[d] : d \in DOMAIN mDetailScales}
    ELSE {0}

\* LLMeshRepoThread::notifyLoadedMeshes: the loaded queue is drained.
RECURSIVE DrainLoaded(_, _, _, _, _)
DrainLoaded(st, q, found, obj_volume, past) ==
    IF q = << >> THEN st
    ELSE LET mesh == Head(q)
         IN DrainLoaded(IF mesh.mVolume.faces.size > 0
                        THEN notifyMeshLoaded(st, mesh.mMeshParams, mesh.mVolume, found)
                        ELSE notifyMeshUnavailable(st, mesh.mMeshParams,
                                 getVolumeDetailFromScale(mesh.mVolume.mDetail),
                                 found, obj_volume, past),
                        Tail(q), found, obj_volume, past)

\* LLMeshRepoThread::notifyLoadedMeshes: the unavailable queue is drained.
RECURSIVE DrainUnavailable(_, _, _, _, _)
DrainUnavailable(st, q, found, obj_volume, past) ==
    IF q = << >> THEN st
    ELSE DrainUnavailable(notifyMeshUnavailable(st, Head(q).mMeshParams, Head(q).mLOD,
                                                found, obj_volume, past),
                          Tail(q), found, obj_volume, past)

\* The interest-set keys of the results waiting in the worker's two queues.
ResultKeys ==
    {<<getVolumeDetailFromScale(mLoadedQ[i].mVolume.mDetail), mLoadedQ[i].mMeshParams>> :
        i \in DOMAIN mLoadedQ}
    \cup {<<mUnavailableQ[i].mLOD, mUnavailableQ[i].mMeshParams>> : i \in DOMAIN mUnavailableQ}

\* The objects waiting for one of these results.
Interested ==
    UNION {mLoadingMeshes[k] : k \in ResultKeys \cap DOMAIN mLoadingMeshes}

\* LLModel::Decomposition::merge: the record takes from rhs the hull it does
\* not have and the physics shape mesh it does not have.
merge(lhs, rhs) ==
    [lhs EXCEPT
        !.mBaseHull = IF lhs.mBaseHull = EmptyBuf THEN rhs.mBaseHull ELSE @,
        !.mBaseHullMesh = IF lhs.mBaseHull = EmptyBuf THEN rhs.mBaseHullMesh ELSE @,
        !.mPhysicsShapeMesh = IF @ = EmptyBuf THEN rhs.mPhysicsShapeMesh ELSE @]

\* LLMeshRepository::notifySkinInfoReceived.  rs: the two maps and the
\* loading sets.
notifySkinInfoReceived(rs, info) ==
    [rs EXCEPT !.mSkinMap = Put(@, info.mMeshID, info),
               !.mLoadingAux["Skin"] = @ \ {info.mMeshID}]

\* A notifyDecompositionReceived that overwrites the record of the mesh.
notifyDecompositionOverwrites(rs, decomp) ==
    [rs EXCEPT !.mDecompositionMap = Put(@, decomp.mMeshID, decomp),
               !.mLoadingAux["Decomposition"] = @ \ {decomp.mMeshID}]

\* LLMeshRepository::notifyDecompositionReceived
notifyDecompositionReceived(rs, decomp) ==
    IF decomp.mMeshID \notin DOMAIN rs.mDecompositionMap
    THEN \* just insert decomp into map
         [rs EXCEPT !.mDecompositionMap = Put(@, decomp.mMeshID, decomp),
                    !.mLoadingAux["Decomposition"] = @ \ {decomp.mMeshID}]
    ELSE \* merge decomp with existing entry
         [rs EXCEPT !.mDecompositionMap[decomp.mMeshID] = merge(@, decomp),
                    !.mLoadingAux["Decomposition"] = @ \ {decomp.mMeshID}]

\* LLMeshRepoThread::notifyLoadedMeshes: the skin info queue is drained.
RECURSIVE DrainSkinInfo(_, _)
DrainSkinInfo(rs, q) ==
    IF q = << >> THEN rs
    ELSE DrainSkinInfo(notifySkinInfoReceived(rs, Head(q)), Tail(q))

\* LLMeshRepoThread::notifyLoadedMeshes: the decomposition queue is drained.
RECURSIVE DrainDecomposition(_, _)
DrainDecomposition(rs, q) ==
    IF q = << >> THEN rs
    ELSE DrainDecomposition(notifyDecompositionReceived(rs, Head(q)), Tail(q))

\* LLMeshRepository::notifyLoadedMeshes, the main thread's tick.  Of the
\* objects waiting for a result, found are those that still exist and
\* obj_volume is the volume each of them has.
\* cur_score is the score of each object's
\* drawable, read when the pending requests are sorted.
notifyLoadedMeshes ==
    /\ TickUploads
    /\ ~(~mWaiting /\ mPendingRequests = << >>)
    /\ \E found \in SUBSET Interested :
       \E obj_volume \in [found -> Details \X VolumeParams] :
       LET active_count == sActiveHeaderRequests + sActiveLODRequests
           n == push_count(active_count, Len(mPendingRequests))
           \* more requests than the high-water limit allows: sort
           sorts == /\ active_count < sRequestLowWater
                    /\ Len(mPendingRequests) > sRequestHighWater - active_count
       IN \E cur_score \in (IF sorts THEN [Objects -> Scores] ELSE {<< >>}) :
          \E sorted \in (IF sorts
                          THEN partial_sort(SetScores(mPendingRequests,
                                               score_map(mLoadingMeshes, cur_score)), n)
                          ELSE {mPendingRequests}) :
          \E t \in {ForwardRequests(Thread, sorted, n)} :
          \E past \in ScalesPastEnd(t.mUnavailableQ) :
          \E st \in {DrainUnavailable(
                        DrainLoaded([loading |-> mLoadingMeshes, notified |-> {}],
                                    t.mLoadedQ, found, obj_volume, past),
                        t.mUnavailableQ, found, obj_volume, past)} :
          \E rs \in {DrainDecomposition(
                        DrainSkinInfo([mSkinMap |-> mSkinMap,
                                       mDecompositionMap |-> mDecompositionMap,
                                       mLoadingAux |-> mLoadingAux],
                                      t.mSkinInfoQ),
                        t.mDecompositionQ)} :
          /\ mPendingRequests' = SubSeq(sorted, n + 1, Len(sorted))
          /\ mLoadingMeshes' = st.loading
          /\ mSkinMap' = rs.mSkinMap
          /\ mDecompositionMap' = rs.mDecompositionMap
          /\ mLoadingAux' = rs.mLoadingAux
          /\ SetThread([t EXCEPT !.mLoadedQ = << >>, !.mUnavailableQ = << >>,
                                 !.mSkinInfoQ = << >>, !.mDecompositionQ = << >>])
          /\ event' = TickEvent(obj_volume, st.notified,
                                 IF sorts THEN sorted ELSE << >>)
    \* the pending skin info, decomposition and physics shape requests
    /\ mAuxRequests' = [class \in AuxClassSet |->
                           mAuxRequests[class] \cup
                           {mPendingAuxRequests[class][i] :
                               i \in DOMAIN mPendingAuxRequests[class]}]
    /\ mPendingAuxRequests' = [class \in AuxClassSet |-> << >>]
    /\ signaled' = mWaiting
    /\ UNCHANGED <<mWaiting, pc, throttled, asset, nInvalid, nLoadMesh,
                   written, uncounted>>

Next ==
    \/ \E vobj \in Objects, mesh_params \in VolumeParams, detail \in Details :
          loadMesh(vobj, mesh_params, detail)
    \/ notifyLoadedMeshes
    \/ UpdateDone
    \/ \E second_passed \in BOOLEAN, retries_cap \in BOOLEAN : Wake(second_passed, retries_cap)
    \/ \E url_ok \in BOOLEAN, handle_ok \in HandleResults :
          ProcessLODRequest(url_ok, handle_ok)
    \/ LODLoopDone
    \/ \E url_ok \in BOOLEAN, handle_ok \in HandleResults :
          ProcessHeaderRequest(url_ok, handle_ok)
    \/ HeaderLoopDone
    \/ \E h \in mHttpRequestSet, status \in FailedStatuses : HeaderFailed(h, status)
    \/ \E h \in mHttpRequestSet, vfs_ok \in BOOLEAN :
          \E body \in Bodies(h) : HeaderSucceeded(h, body, vfs_ok)
    \/ \E h \in mHttpRequestSet, status \in FailedStatuses : LODFailed(h, status)
    \/ \E h \in mHttpRequestSet : \E body \in Bodies(h) : LODSucceeded(h, body)

Spec == Init /\ [][Next]_vars

\* The runs in which no request fails in a way that is retried: every handle
\* is valid and every failed status is one is_retryable rejects.
NotRetried == {status \in FailedStatuses : ~is_retryable(status)}
NextNoRetry ==
    \/ \E vobj \in Objects, mesh_params \in VolumeParams, detail \in Details :
          loadMesh(vobj, mesh_params, detail)
    \/ notifyLoadedMeshes
    \/ UpdateDone
    \/ \E second_passed \in BOOLEAN, retries_cap \in BOOLEAN : Wake(second_passed, retries_cap)
    \/ \E url_ok \in BOOLEAN : ProcessLODRequest(url_ok, TRUE)
    \/ LODLoopDone
    \/ \E url_ok \in BOOLEAN : ProcessHeaderRequest(url_ok, TRUE)
    \/ HeaderLoopDone
    \/ \E h \in mHttpRequestSet, status \in NotRetried : HeaderFailed(h, status)
    \/ \E h \in mHttpRequestSet, vfs_ok \in BOOLEAN :
          \E body \in Bodies(h) : HeaderSucceeded(h, body, vfs_ok)
    \/ \E h \in mHttpRequestSet, status \in NotRetried : LODFailed(h, status)
    \/ \E h \in mHttpRequestSet : \E body \in Bodies(h) : LODSucceeded(h, body)

SpecNoRetry == Init /\ [][NextNoRetry]_vars

\* The transport answers the request with handle n, with a status that is
\* not retried or with some body.
Answer(n) ==
    \E h \in mHttpRequestSet :
       /\ h.mHttpHandle = n
       /\ \/ \E status \in NotRetried : HeaderFailed(h, status)
          \/ \E vfs_ok \in BOOLEAN : \E body \in Bodies(h) : HeaderSucceeded(h, body, vfs_ok)
          \/ \E status \in NotRetried : LODFailed(h, status)
          \/ \E body \in Bodies(h) : LODSucceeded(h, body)

\* The handles that can be in use together when nothing is retried: every
\* loadMesh call has at most one request in flight.
Handles == 1..MaxLoadMesh

\* The runs without retried failures in which the region's capability URL
\* is known whenever a request is made.
NextFair ==
    \/ \E vobj \in Objects, mesh_params \in VolumeParams, detail \in Details :
          loadMesh(vobj, mesh_params, detail)
    \/ notifyLoadedMeshes
    \/ UpdateDone
    \/ \E second_passed \in BOOLEAN, retries_cap \in BOOLEAN : Wake(second_passed, retries_cap)
    \/ ProcessLODRequest(TRUE, TRUE)
    \/ LODLoopDone
    \/ ProcessHeaderRequest(TRUE, TRUE)
    \/ HeaderLoopDone
    \/ \E n \in Handles : Answer(n)

\* A step of the worker's loop other than the wake-up from mSignal->wait().
WorkerStep ==
    \/ UpdateDone
    \/ ProcessLODRequest(TRUE, TRUE)
    \/ LODLoopDone
    \/ ProcessHeaderRequest(TRUE, TRUE)
    \/ HeaderLoopDone

\* The main thread's tick runs again and again, the worker's thread keeps
\* running, a second goes by again and again so that the per-second count
\* is cleared, and the transport answers every request.
Fairness ==
    /\ WF_vars(notifyLoadedMeshes)
    /\ WF_vars(WorkerStep)
    /\ SF_vars(\E retries_cap \in BOOLEAN : Wake(TRUE, retries_cap))
    /\ \A n \in Handles : SF_vars(Answer(n))

\* The fair runs: no retryable failure occurs at all.
SpecFair == Init /\ [][NextFair]_vars /\ Fairness

\* Every handle in use is one of Handles when nothing is retried.
HandlesInRange == \A h \in mHttpRequestSet : h.mHttpHandle \in Handles

(***************************************************************************)
(* The scheduler's tick under load: header requests in flight up to the    *)
(* low-water mark and more pending requests than one tick may forward.     *)
(***************************************************************************)
TickMeshIds == {getSculptID(ParamsOrder[i]) : i \in DOMAIN ParamsOrder}

\* LLMeshRepoThread after construction, with the cache files of ids.
NewThread(ids) ==
    [mMeshHeader |-> [m \in {} |-> Header404],
     mMeshHeaderSize |-> [m \in {} |-> 0],
     mHeaderReqQ |-> << >>, mLODReqQ |-> << >>,
     mPendingLOD |-> [v \in {} |-> << >>],
     mLoadedQ |-> << >>, mUnavailableQ |-> << >>, mHttpRequestSet |-> {},
     sActiveHeaderRequests |-> 0, sActiveLODRequests |-> 0,
     vfs |-> [m \in ids |-> NoFile],
     mSkinInfoQ |-> << >>, mDecompositionQ |-> << >>]

\* run()'s header loop, with a capability URL and valid handles.
RECURSIVE IssueHeaders(_)
IssueHeaders(t) ==
    IF t.mHeaderReqQ = << >> THEN t
    ELSE IssueHeaders(fetchMeshHeader([t EXCEPT !.mHeaderReqQ = Tail(@)],
                                      Head(t.mHeaderReqQ), TRUE, TRUE)[2])

\* The numbers of requests in flight a loaded tick starts with: just below
\* the low-water mark (the tick forwards) and at it (the tick does not).
TickActive == {sRequestLowWater - 1, sRequestLowWater}
\* The numbers of pending requests it starts with: as many as a tick just
\* below the low-water mark may forward, and one more.
TickPending == {sRequestHighWater - sRequestLowWater + 1,
                sRequestHighWater - sRequestLowWater + 2}

\* The i-th pending request asks for <<detail, params>>.
PendingKey(i) ==
    <<(i - 1) \div Len(PendingParams), PendingParams[((i - 1) % Len(PendingParams)) + 1]>>

\* The state the calls below leave: loadMesh for active parameter sets at
\* detail 0, a tick that forwards them, the worker's header loop that
\* issues their header requests, and loadMesh for size more
\* <<detail, params>>: O1 asks for the first parameter set of each mesh id,
\* the object owner names for the second.
InitTick ==
    \E active \in TickActive, size \in TickPending :
    \E owner \in [{"V2", "V4", "V6"} -> Objects] :
    LET first == [i \in 1..active |-> LODRequest(ActiveParams[i], 0)]
        t == IssueHeaders(ForwardRequests(NewThread(TickMeshIds), first, active))
    IN /\ UploadsIdle
       /\ mLoadingMeshes =
            [k \in {<<0, ActiveParams[i]>> : i \in 1..active}
                    \cup {PendingKey(i) : i \in 1..size} |->
                IF k[2] \in DOMAIN owner THEN {owner[k[2]]} ELSE {"O1"}]
       /\ mPendingRequests =
            [i \in 1..size |-> LODRequest(PendingKey(i)[2], PendingKey(i)[1])]
       /\ mMeshHeader = t.mMeshHeader
       /\ mMeshHeaderSize = t.mMeshHeaderSize
       /\ mHeaderReqQ = t.mHeaderReqQ
       /\ mLODReqQ = t.mLODReqQ
       /\ mPendingLOD = t.mPendingLOD
       /\ mLoadedQ = t.mLoadedQ
       /\ mUnavailableQ = t.mUnavailableQ
       /\ mHttpRequestSet = t.mHttpRequestSet
       /\ sActiveHeaderRequests = t.sActiveHeaderRequests
       /\ sActiveLODRequests = t.sActiveLODRequests
       /\ mWaiting = TRUE
       /\ signaled = FALSE
       /\ pc = "wait"
       /\ throttled = FALSE
       /\ uncounted = 0
       /\ mLoadingAux = [class \in AuxClassSet |-> {}]
       /\ mPendingAuxRequests = [class \in AuxClassSet |-> << >>]
       /\ mAuxRequests = [class \in AuxClassSet |-> {}]
       /\ mSkinInfoQ = << >>
       /\ mDecompositionQ = << >>
       /\ mSkinMap = << >>
       /\ mDecompositionMap = << >>
       /\ vfs = t.vfs
       /\ asset = [m \in TickMeshIds |-> AssetOk]
       /\ nInvalid = 0
       /\ nLoadMesh = MaxLoadMesh
       /\ written = [k \in {} |-> EmptyBuf]
       /\ event = NoEvent

\* The ticks and the worker's loop; the transport answers no request.
NextTick ==
    \/ notifyLoadedMeshes
    \/ UpdateDone
    \/ \E second_passed \in BOOLEAN, retries_cap \in BOOLEAN : Wake(second_passed, retries_cap)
    \/ LODLoopDone
    \/ ProcessHeaderRequest(TRUE, TRUE)
    \/ HeaderLoopDone

SpecTick == InitTick /\ [][NextTick]_vars

(***************************************************************************)
(* The worker with auxiliary requests: the headers of M1 and M2 are        *)
(* stored, with skin, physics_convex and physics_mesh blocks, and header   *)
(* requests of other meshes are in flight.                                 *)
(***************************************************************************)
\* The numbers of header requests in flight at the start: none, and one
\* less than the high-water mark.
AuxActive == {0, sRequestHighWater - 1}

\* The requests one tick forwards in the run that leads to InitAux.
AuxBatch == 13

\* The state the calls below leave: loadMesh for active parameter sets at
\* detail 0, three ticks that forward up to AuxBatch of them each, the
\* worker's header loop that issues their header requests after each
\* tick, and the headers of M1 and M2, fetched for requests that were
\* answered since.
InitAux ==
    \E active \in AuxActive :
    \E tick1 \in {IssueHeaders(ForwardRequests(NewThread(TickMeshIds),
                     [i \in 1..llmin(AuxBatch, active) |->
                         LODRequest(ActiveParams[i], 0)], AuxBatch))} :
    \E tick2 \in {IssueHeaders(ForwardRequests(tick1,
                     [i \in 1..llmin(AuxBatch, llmax(active - AuxBatch, 0)) |->
                         LODRequest(ActiveParams[AuxBatch + i], 0)], AuxBatch))} :
    \E issued \in {IssueHeaders(ForwardRequests(tick2,
                     [i \in 1..llmin(AuxBatch, llmax(active - 2 * AuxBatch, 0)) |->
                         LODRequest(ActiveParams[2 * AuxBatch + i], 0)], AuxBatch))} :
    \E body \in {BufSub(AssetAux, 0, MESH_HEADER_SIZE)} :
    \E t1 \in {HeaderProcessData(issued, LLMeshHeaderHandler("V1", 0),
                                  body, body.size, TRUE)[1]} :
    \E t \in {HeaderProcessData(t1, LLMeshHeaderHandler("V3", 0),
                                 body, body.size, TRUE)[1]} :
       /\ UploadsIdle
       /\ mLoadingMeshes = [k \in {<<0, ActiveParams[i]>> : i \in 1..active} |-> {"O1"}]
       /\ mPendingRequests = << >>
       /\ mMeshHeader = t.mMeshHeader
       /\ mMeshHeaderSize = t.mMeshHeaderSize
       /\ mHeaderReqQ = t.mHeaderReqQ
       /\ mLODReqQ = t.mLODReqQ
       /\ mPendingLOD = t.mPendingLOD
       /\ mLoadedQ = t.mLoadedQ
       /\ mUnavailableQ = t.mUnavailableQ
       /\ mHttpRequestSet = t.mHttpRequestSet
       /\ sActiveHeaderRequests = t.sActiveHeaderRequests
       /\ sActiveLODRequests = t.sActiveLODRequests
       /\ mWaiting = TRUE
       /\ signaled = FALSE
       /\ pc = "wait"
       /\ throttled = FALSE
       /\ uncounted = 0
       /\ mLoadingAux = [class \in AuxClassSet |-> {}]
       /\ mPendingAuxRequests = [class \in AuxClassSet |-> << >>]
       /\ mAuxRequests = [class \in AuxClassSet |-> {}]
       /\ mSkinInfoQ = << >>
       /\ mDecompositionQ = << >>
       /\ mSkinMap = << >>
       /\ mDecompositionMap = << >>
       /\ vfs = t.vfs
       /\ asset = [m \in TickMeshIds |-> IF m \in {"M1", "M2"} THEN AssetAux ELSE AssetOk]
       /\ nInvalid = 0
       /\ nLoadMesh = MaxLoadMesh - 1
       /\ written = [k \in {} |-> EmptyBuf]
       /\ event = NoEvent

\* Requests for one mesh and for auxiliary blocks (the skin of both meshes,
\* the decomposition and physics shape of the first), the ticks and the
\* worker's loop.  The transport answers no request and retries none, so
\* that count is the number of header and LOD GETs since it was cleared.
NextAux ==
    \/ \E detail \in Details : loadMesh("O1", "V1", detail)
    \/ \E i \in DOMAIN AuxMeshIds : getSkinInfo(AuxMeshIds[i])
    \/ getDecomposition(AuxMeshIds[1])
    \/ fetchPhysicsShape(AuxMeshIds[1])
    \/ notifyLoadedMeshes
    \/ UpdateDone
    \/ \E second_passed \in BOOLEAN : Wake(second_passed, FALSE)
    \/ ProcessLODRequest(TRUE, TRUE)
    \/ LODLoopDone
    \/ HeaderLoopDone
    \/ \E i \in DOMAIN AuxClasses : ScanRequests(AuxClasses[i], TRUE, TRUE)

SpecAux == InitAux /\ [][NextAux]_vars

(***************************************************************************)
(* Auxiliary requests and their results: the header of M1 is stored with   *)
(* skin, physics_convex and physics_mesh blocks, the header of M2 without. *)
(***************************************************************************)
\* The state after the headers of M1 and M2 were fetched for requests that
\* were answered since.
InitResults ==
    \E t1 \in {HeaderProcessData(NewThread(TickMeshIds), LLMeshHeaderHandler("V1", 0),
                                  BufSub(AssetAux, 0, MESH_HEADER_SIZE),
                                  MESH_HEADER_SIZE, TRUE)[1]} :
    \E t \in {HeaderProcessData(t1, LLMeshHeaderHandler("V3", 0),
                                 BufSub(AssetOk, 0, MESH_HEADER_SIZE),
                                 MESH_HEADER_SIZE, TRUE)[1]} :
       /\ UploadsIdle
       /\ mLoadingMeshes = << >>
       /\ mPendingRequests = << >>
       /\ mMeshHeader = t.mMeshHeader
       /\ mMeshHeaderSize = t.mMeshHeaderSize
       /\ mHeaderReqQ = t.mHeaderReqQ
       /\ mLODReqQ = t.mLODReqQ
       /\ mPendingLOD = t.mPendingLOD
       /\ mLoadedQ = t.mLoadedQ
       /\ mUnavailableQ = t.mUnavailableQ
       /\ mHttpRequestSet = t.mHttpRequestSet
       /\ sActiveHeaderRequests = t.sActiveHeaderRequests
       /\ sActiveLODRequests = t.sActiveLODRequests
       /\ mSkinInfoQ = t.mSkinInfoQ
       /\ mDecompositionQ = t.mDecompositionQ
       /\ mSkinMap = << >>
       /\ mDecompositionMap = << >>
       /\ mWaiting = TRUE
       /\ signaled = FALSE
       /\ pc = "wait"
       /\ throttled = FALSE
       /\ uncounted = 0
       /\ mLoadingAux = [class \in AuxClassSet |-> {}]
       /\ mPendingAuxRequests = [class \in AuxClassSet |-> << >>]
       /\ mAuxRequests = [class \in AuxClassSet |-> {}]
       /\ vfs = t.vfs
       /\ asset = [m \in TickMeshIds |-> IF m = "M1" THEN AssetAux ELSE AssetOk]
       /\ nInvalid = 0
       /\ nLoadMesh = MaxLoadMesh
       /\ written = [k \in {} |-> EmptyBuf]
       /\ event = NoEvent

\* The statuses a failed auxiliary fetch ends with here: one that is
\* retried and one that is not.
AuxFailedStatuses == {HttpStatus("http", 503), HttpStatus("http", 404)}

\* Requests for the auxiliary blocks of M1 and the physics shape of M2, the
\* ticks, the worker's loop and the completions of the fetches.  A second
\* passes between two wake-ups of the worker.
NextResults ==
    \/ getSkinInfo(AuxMeshIds[1])
    \/ getDecomposition(AuxMeshIds[1])
    \/ \E i \in DOMAIN AuxMeshIds : fetchPhysicsShape(AuxMeshIds[i])
    \/ notifyLoadedMeshes
    \/ UpdateDone
    \/ Wake(TRUE, FALSE)
    \/ LODLoopDone
    \/ HeaderLoopDone
    \/ \E i \in DOMAIN AuxClasses : ScanRequests(AuxClasses[i], TRUE, TRUE)
    \/ \E h \in mHttpRequestSet, status \in AuxFailedStatuses : AuxFailed(h, status)
    \/ \E h \in mHttpRequestSet : \E body \in AuxBodies(h) : AuxSucceeded(h, body)

SpecResults == InitResults /\ [][NextResults]_vars

(***************************************************************************)
(* LLMeshRepository::getActualMeshLOD, called by the main thread on the    *)
(* headers the worker has stored.                                          *)
(***************************************************************************)
\* A header of the given version whose LOD blocks have the given sizes.
HeaderWith(version, sizes) ==
    [has404 |-> FALSE, version |-> version,
     lod |-> [l \in 0..3 |-> [offset |-> 0, size |-> sizes[l]]],
     skin |-> NoBlock, physics_convex |-> NoBlock, physics_mesh |-> NoBlock]

\* The headers a server may have sent: every LOD block present or absent,
\* versions at and around MAX_MESH_VERSION, and the header of a zero-length
\* response.
SampleHeaders ==
    {HeaderWith(version, sizes) :
        version \in {1, MAX_MESH_VERSION, MAX_MESH_VERSION + 1},
        sizes \in [0..3 -> {0, 2}]}
    \cup {Header404}

\* The lod arguments, some of them outside 0..3.
LODArgs == -1..5

\* LLMeshRepoThread::getActualMeshLOD(mesh_params, lod): the result is kept
\* in event.res; a header in which no LOD has a block is marked "404".
ActualMeshLOD(mesh_params, lod) ==
    LET mesh_id == getSculptID(mesh_params)
        known == mesh_id \in DOMAIN mMeshHeader
        ret == IF known THEN getActualMeshLOD(mMeshHeader[mesh_id], lod) ELSE lod
        header == mMeshHeader[mesh_id]
        none == \A i \in 0..3 : ~(header.lod[i].size > 0)
    IN /\ event' = Event("getActualMeshLOD", mesh_params, lod, ret)
       /\ mMeshHeader' =
            IF known /\ ~header.has404 /\ ~(header.version > MAX_MESH_VERSION) /\ none
            THEN [mMeshHeader EXCEPT ![mesh_id].has404 = TRUE]
            ELSE mMeshHeader
       /\ UNCHANGED <<mLoadingMeshes, mPendingRequests, mMeshHeaderSize, mHeaderReqQ,
                      mLODReqQ, mPendingLOD, mLoadedQ, mUnavailableQ, mHttpRequestSet,
                      sActiveHeaderRequests, sActiveLODRequests, mWaiting, signaled,
                      pc, throttled, vfs, asset, nInvalid, nLoadMesh, written>>
       /\ AuxUnchanged
       /\ QueuesUnchanged
       /\ UploadsUnchanged

\* The worker has stored some header, or none, and is idle.
InitLOD ==
    /\ UploadsIdle
    /\ mLoadingMeshes = [k \in {} |-> {}]
    /\ mPendingRequests = << >>
    /\ \/ mMeshHeader \in [MeshIds -> SampleHeaders]
       \/ mMeshHeader = [m \in {} |-> Header404]
    /\ mMeshHeaderSize = [m \in DOMAIN mMeshHeader |->
                            IF mMeshHeader[m].has404 THEN 0 ELSE EncodedHeaderLen]
    /\ mHeaderReqQ = << >>
    /\ mLODReqQ = << >>
    /\ mPendingLOD = [v \in {} |-> << >>]
    /\ mLoadedQ = << >>
    /\ mUnavailableQ = << >>
    /\ mHttpRequestSet = {}
    /\ sActiveHeaderRequests = 0
    /\ sActiveLODRequests = 0
    /\ mWaiting = TRUE
    /\ signaled = FALSE
    /\ pc = "wait"
    /\ throttled = FALSE
    /\ uncounted = 0
    /\ mLoadingAux = [class \in AuxClassSet |-> {}]
    /\ mPendingAuxRequests = [class \in AuxClassSet |-> << >>]
    /\ mAuxRequests = [class \in AuxClassSet |-> {}]
    /\ mSkinInfoQ = << >>
    /\ mDecompositionQ = << >>
    /\ mSkinMap = << >>
    /\ mDecompositionMap = << >>
    /\ vfs = [m \in MeshIds |-> NoFile]
    /\ asset \in [MeshIds -> Assets]
    /\ nInvalid = 0
    /\ nLoadMesh = 0
    /\ written = [k \in {} |-> EmptyBuf]
    /\ event = NoEvent

NextLOD ==
    \E mesh_params \in VolumeParams, lod \in LODArgs : ActualMeshLOD(mesh_params, lod)

SpecLOD == InitLOD /\ [][NextLOD]_vars

(***************************************************************************)
(* Uploads (LLMeshUploadThread), physics decomposition (LLPhysicsDecomp)   *)
(* and LLMeshRepository::shutdown.                                         *)
(***************************************************************************)
\* The base models of an upload, in the order of mInstance.
BaseModels == <<"B1", "B2">>
\* The vertex positions of a physics model (one coordinate each).
PositionSets == {<< >>, <<2, 1, 3>>}
\* The vertices LLConvexDecomposition::getSingleHull can return.
LibraryHulls == {<< >>, <<5, 6, 7>>}
LLCD_OK == "LLCD_OK"
LLCDResults == {LLCD_OK, "LLCD_UNKOWN_ERROR"}

RepoUnchanged ==
    UNCHANGED <<mLoadingMeshes, mPendingRequests, mMeshHeader, mMeshHeaderSize,
                mHeaderReqQ, mLODReqQ, mPendingLOD, mLoadedQ, mUnavailableQ,
                mHttpRequestSet, sActiveHeaderRequests, sActiveLODRequests,
                mWaiting, signaled, pc, throttled, vfs, asset, nInvalid,
                nLoadMesh, written, event, mLoadingAux, mPendingAuxRequests,
                mAuxRequests, uncounted, mSkinInfoQ, mDecompositionQ, mSkinMap,
                mDecompositionMap>>

\* LLMeshUploadThread::DecompRequest of the id-th instance; the constructor's
\* two stores to the thread are in DecompRequestCtor.
DecompRequest(positions, base_model, id) ==
    [id |-> id, mBaseModel |-> base_model, mStage |-> "single_hull",
     mPositions |-> positions, mHull |-> << >>, ret |-> "none"]

\* LLPhysicsDecomp::Request::isValid (llmeshrepository.h).
isValid(request) == Len(request.mPositions) > 2

LLMeshUploadThread(instances, upload_url, do_upload, physics_complete) ==
    [pc |-> "waitlist", mDoUpload |-> do_upload,
     mWholeModelUploadURL |-> upload_url, mInstance |-> instances,
     next |-> 1, request |-> << >>, has_valid_requests |-> FALSE,
     mFinalDecomp |-> 0, mPhysicsComplete |-> physics_complete,
     mHullMap |-> << >>, mPendingUploads |-> 0, mFinished |-> FALSE,
     mDiscarded |-> FALSE, posts |-> << >>, fee |-> "none",
     response |-> << >>]

\* Nothing was requested of the repository and the worker is in its loop.
InitRepoIdle ==
    /\ mLoadingMeshes = [k \in {} |-> {}]
    /\ mPendingRequests = << >>
    /\ mMeshHeader = [m \in {} |-> Header404]
    /\ mMeshHeaderSize = [m \in {} |-> 0]
    /\ mHeaderReqQ = << >>
    /\ mLODReqQ = << >>
    /\ mPendingLOD = [v \in {} |-> << >>]
    /\ mLoadedQ = << >>
    /\ mUnavailableQ = << >>
    /\ mHttpRequestSet = {}
    /\ sActiveHeaderRequests = 0
    /\ sActiveLODRequests = 0
    /\ mWaiting = FALSE
    /\ signaled = FALSE
    /\ pc = "update"
    /\ throttled = FALSE
    /\ uncounted = 0
    /\ mLoadingAux = [class \in AuxClassSet |-> {}]
    /\ mPendingAuxRequests = [class \in AuxClassSet |-> << >>]
    /\ mAuxRequests = [class \in AuxClassSet |-> {}]
    /\ mSkinInfoQ = << >>
    /\ mDecompositionQ = << >>
    /\ mSkinMap = << >>
    /\ mDecompositionMap = << >>
    /\ vfs = [m \in MeshIds |-> NoFile]
    /\ asset = [m \in MeshIds |-> AssetOk]
    /\ nInvalid = 0
    /\ nLoadMesh = 0
    /\ written = [k \in {} |-> EmptyBuf]
    /\ event = NoEvent

\* One upload waits in mUploadWaitList; the decomposition thread waits on
\* its signal, or has returned at once because the library is a stub.
InitUpload ==
    /\ InitRepoIdle
    /\ LocksIdle
    /\ isQuitting = FALSE
    /\ mn = [pc |-> "run", isFinal |-> FALSE, assertFailed |-> FALSE,
             notifications |-> << >>]
    /\ mUploadErrorQ = << >>
    /\ \E instances \in [DOMAIN BaseModels -> PositionSets],
          upload_url \in {"", "U0"}, do_upload \in BOOLEAN,
          physics_complete \in BOOLEAN :
          up = LLMeshUploadThread(instances, upload_url, do_upload, physics_complete)
    /\ \E stub \in BOOLEAN :
          dec = [pc |-> IF stub THEN "stopped" ELSE "wait", mRequestQ |-> << >>,
                 mCurRequest |-> << >>, mCompletedQ |-> << >>,
                 mQuitting |-> FALSE, signaled |-> FALSE,
                 submitted |-> << >>, started |-> << >>, finished |-> << >>]

\* LLMeshRepository::update starts the waiting upload.
update ==
    /\ mn.pc = "run" /\ up.pc = "waitlist"
    /\ up' = [up EXCEPT !.pc = "run"]
    /\ UNCHANGED <<lk, isQuitting, mn, mUploadErrorQ, dec>>
    /\ RepoUnchanged

\* LLMeshUploadThread::run, up to the call of generateHulls.
runUpload ==
    /\ up.pc = "run"
    /\ up' = IF up.mDoUpload /\ up.mWholeModelUploadURL = ""
             THEN [up EXCEPT !.pc = "stopped", !.mFinished = TRUE]
             ELSE [up EXCEPT !.pc = "hulls"]
    /\ UNCHANGED <<lk, isQuitting, mn, mUploadErrorQ, dec>>
    /\ RepoUnchanged

\* generateHulls: the request of the next instance is constructed.
DecompRequestCtor ==
    /\ up.pc = "hulls" /\ up.next <= Len(up.mInstance)
    /\ LET request == DecompRequest(up.mInstance[up.next], BaseModels[up.next], up.next)
       IN up' = [up EXCEPT !.mFinalDecomp = request.id, !.mPhysicsComplete = FALSE,
                           !.request = <<request>>, !.pc = "submit"]
    /\ UNCHANGED <<lk, isQuitting, mn, mUploadErrorQ, dec>>
    /\ RepoUnchanged

submitRequest(d, request) ==
    [d EXCEPT !.mRequestQ = Append(@, request), !.signaled = (d.pc = "wait"),
              !.submitted = Append(@, request.id)]

\* generateHulls: a valid request is submitted, under LLPhysicsDecomp::mMutex.
generateHullsSubmit ==
    /\ up.pc = "submit"
    /\ LET request == up.request[1]
       IN IF isValid(request)
          THEN /\ mn.pc # "completed"
               /\ dec' = submitRequest(dec, request)
               /\ up' = [up EXCEPT !.has_valid_requests = TRUE, !.next = @ + 1,
                                   !.request = << >>, !.pc = "hulls"]
          ELSE /\ dec' = dec
               /\ up' = [up EXCEPT !.next = @ + 1, !.request = << >>, !.pc = "hulls"]
    /\ UNCHANGED <<lk, isQuitting, mn, mUploadErrorQ>>
    /\ RepoUnchanged

\* generateHulls returns: no request was valid, or mPhysicsComplete is set.
generateHullsReturns ==
    /\ up.pc = "hulls" /\ up.next > Len(up.mInstance)
    /\ up.has_valid_requests => up.mPhysicsComplete
    /\ up' = [up EXCEPT !.pc = "post"]
    /\ UNCHANGED <<lk, isQuitting, mn, mUploadErrorQ, dec>>
    /\ RepoUnchanged

\* The POST of doWholeModelUpload or of requestWholeModelFee; the responder's
\* constructor calls startRequest.
postWholeModel ==
    /\ up.pc = "post"
    /\ up' = [up EXCEPT !.posts = Append(@, IF up.mDoUpload THEN "upload" ELSE "fee"),
                        !.mPendingUploads = @ + 1, !.pc = "poll"]
    /\ UNCHANGED <<lk, isQuitting, mn, mUploadErrorQ, dec>>
    /\ RepoUnchanged

isGoodStatus(status) == status >= 200 /\ status < 300

\* What the server can answer to a fee request or an upload.
Responses ==
    {[status |-> 200, state |-> "upload", uploader |-> "U1",
      message |-> "", identifier |-> ""],
     [status |-> 200, state |-> "complete", uploader |-> "",
      message |-> "", identifier |-> ""],
     [status |-> 200, state |-> "error", uploader |-> "",
      message |-> "bad mesh", identifier |-> "E1"],
     [status |-> 499, state |-> "", uploader |-> "",
      message |-> "bad mesh", identifier |-> "E1"]}

log_upload_error_none(q, content, model_name) == q

\* log_upload_error, with LLMeshRepository::uploadError.
log_upload_error(q, content, model_name) ==
    Append(q, [MESSAGE |-> content.message, IDENTIFIER |-> content.identifier,
               LABEL |-> model_name])

\* LLWholeModelFeeResponder::completed, then the responder's destructor.
LLWholeModelFeeResponder(cc) ==
    /\ up.pc = "poll" /\ ~up.mDoUpload /\ up.mPendingUploads > 0
    /\ IF isGoodStatus(cc.status) /\ cc.state = "upload"
       THEN /\ up' = [up EXCEPT !.mWholeModelUploadURL = cc.uploader,
                                !.mPendingUploads = @ - 1, !.fee = "received",
                                !.response = <<cc>>]
            /\ mUploadErrorQ' = mUploadErrorQ
       ELSE /\ up' = [up EXCEPT !.mWholeModelUploadURL = "",
                                !.mPendingUploads = @ - 1, !.fee = "failed",
                                !.response = <<cc>>]
            /\ mUploadErrorQ' = log_upload_error(mUploadErrorQ, cc, "mesh model")
    /\ UNCHANGED <<lk, isQuitting, mn, dec>>
    /\ RepoUnchanged

\* LLWholeModelUploadResponder::completed, then the responder's destructor.
LLWholeModelUploadResponder(cc) ==
    /\ up.pc = "poll" /\ up.mDoUpload /\ up.mPendingUploads > 0
    /\ up' = [up EXCEPT !.mPendingUploads = @ - 1]
    /\ mUploadErrorQ' = IF isGoodStatus(cc.status) /\ cc.state = "complete"
                        THEN mUploadErrorQ
                        ELSE log_upload_error(mUploadErrorQ, cc, "mesh model")
    /\ UNCHANGED <<lk, isQuitting, mn, dec>>
    /\ RepoUnchanged

\* The polling loop of the POST ends and the thread stops.
pollDone ==
    /\ up.pc = "poll" /\ (isQuitting \/ ~(up.mPendingUploads > 0))
    /\ up' = [up EXCEPT !.pc = "stopped", !.mFinished = TRUE]
    /\ UNCHANGED <<lk, isQuitting, mn, mUploadErrorQ, dec>>
    /\ RepoUnchanged

\* LLPhysicsDecomp::run: mSignal->wait() returns.
runDecompWake ==
    /\ dec.pc = "wait" /\ dec.signaled
    /\ dec' = [dec EXCEPT !.pc = "loop", !.signaled = FALSE]
    /\ UNCHANGED <<lk, isQuitting, mn, mUploadErrorQ, up>>
    /\ RepoUnchanged

\* LLPhysicsDecomp::run: the front request becomes the current one.
runDecompTake ==
    /\ dec.pc = "loop" /\ ~dec.mQuitting /\ dec.mRequestQ # << >>
    /\ mn.pc # "completed"
    /\ dec' = [dec EXCEPT !.mCurRequest = <<Head(dec.mRequestQ)>>,
                          !.mRequestQ = Tail(@),
                          !.started = Append(@, Head(dec.mRequestQ).id),
                          !.pc = "single_hull"]
    /\ UNCHANGED <<lk, isQuitting, mn, mUploadErrorQ, up>>
    /\ RepoUnchanged

\* LLPhysicsDecomp::run: the request loop ends, and the outer loop with it
\* if the engine is quitting.
runDecompLoopDone ==
    /\ dec.pc = "loop" /\ ~(~dec.mQuitting /\ dec.mRequestQ # << >>)
    /\ dec' = [dec EXCEPT !.pc = IF dec.mQuitting THEN "stopped" ELSE "call_wait"]
    /\ UNCHANGED <<lk, isQuitting, mn, mUploadErrorQ, up>>
    /\ RepoUnchanged

\* LLPhysicsDecomp::run: mSignal->wait() is called; the thread waits for the
\* next signal, whatever the request queue holds.
runDecompWait ==
    /\ dec.pc = "call_wait"
    /\ dec' = [dec EXCEPT !.pc = "wait", !.signaled = FALSE]
    /\ UNCHANGED <<lk, isQuitting, mn, mUploadErrorQ, up>>
    /\ RepoUnchanged

RECURSIVE update_min_max(_, _, _, _)
update_min_max(min, max, positions, i) ==
    IF i > Len(positions) THEN <<min, max>>
    ELSE update_min_max(llmin(min, positions[i]), llmax(max, positions[i]),
                        positions, i + 1)

make_box_none(request) == [request EXCEPT !.mHull = << >>]

make_box(request) ==
    [request EXCEPT !.mHull = <<update_min_max(request.mPositions[1],
                                               request.mPositions[1],
                                               request.mPositions, 1)>>]

completeCurrentKept(d) ==
    [d EXCEPT !.mCompletedQ = Append(@, d.mCurRequest[1]),
              !.finished = Append(@, d.mCurRequest[1].id)]

completeCurrent(d) ==
    [d EXCEPT !.mCompletedQ = Append(@, d.mCurRequest[1]),
              !.mCurRequest = << >>,
              !.finished = Append(@, d.mCurRequest[1].id)]

\* LLPhysicsDecomp::doDecompositionSingleHull with the library's answer.
doDecompositionSingleHull(ret, hull) ==
    /\ dec.pc = "single_hull"
    /\ mn.pc # "completed"
    /\ LET request == [dec.mCurRequest[1] EXCEPT !.ret = ret]
           done == IF ret # LLCD_OK THEN make_box(request)
                   ELSE [request EXCEPT !.mHull = <<hull>>]
       IN dec' = [completeCurrent([dec EXCEPT !.mCurRequest = <<done>>])
                     EXCEPT !.pc = "loop"]
    /\ UNCHANGED <<lk, isQuitting, mn, mUploadErrorQ, up>>
    /\ RepoUnchanged

\* LLPhysicsDecomp::notifyCompleted takes mMutex; DecompRequest::completed
\* reads mFinalDecomp of the upload thread, which no mutex guards.
notifyCompleted ==
    /\ mn.pc = "run" /\ dec.mCompletedQ # << >>
    /\ mn' = [mn EXCEPT !.pc = "completed",
                        !.isFinal = (up.mFinalDecomp = Head(dec.mCompletedQ).id)]
    /\ UNCHANGED <<lk, isQuitting, mUploadErrorQ, up, dec>>
    /\ RepoUnchanged

\* The rest of DecompRequest::completed, and the pop.
completed ==
    /\ mn.pc = "completed"
    /\ LET req == Head(dec.mCompletedQ)
       IN /\ up' = [up EXCEPT !.mPhysicsComplete = IF mn.isFinal THEN TRUE ELSE @,
                              !.mHullMap = IF Len(req.mHull) > 0
                                           THEN Put(@, req.mBaseModel, req.mHull[1])
                                           ELSE @]
          /\ mn' = [mn EXCEPT !.pc = "run",
                              !.assertFailed = @ \/ Len(req.mHull) # 1]
    /\ dec' = [dec EXCEPT !.mCompletedQ = Tail(@)]
    /\ UNCHANGED <<lk, isQuitting, mUploadErrorQ>>
    /\ RepoUnchanged

\* The application starts to quit.
Quit ==
    /\ ~isQuitting
    /\ isQuitting' = TRUE
    /\ UNCHANGED <<lk, mn, mUploadErrorQ, up, dec>>
    /\ RepoUnchanged

\* LLMeshRepoThread::run leaves its loop.
runQuit ==
    /\ pc = "update" /\ isQuitting
    /\ pc' = "stopped"
    /\ UNCHANGED <<mLoadingMeshes, mPendingRequests, mMeshHeader, mMeshHeaderSize,
                   mHeaderReqQ, mLODReqQ, mPendingLOD, mLoadedQ, mUnavailableQ,
                   mHttpRequestSet, sActiveHeaderRequests, sActiveLODRequests,
                   mWaiting, signaled, throttled, vfs, asset, nInvalid,
                   nLoadMesh, written, event>>
    /\ AuxUnchanged
    /\ QueuesUnchanged
    /\ UploadsUnchanged

\* LLMeshRepoThread::run: mSignal->wait() returns while quitting.
WakeQuitting ==
    /\ pc = "wait" /\ signaled /\ isQuitting
    /\ pc' = "update"
    /\ mWaiting' = FALSE
    /\ signaled' = FALSE
    /\ UNCHANGED <<mLoadingMeshes, mPendingRequests, mMeshHeader, mMeshHeaderSize,
                   mHeaderReqQ, mLODReqQ, mPendingLOD, mLoadedQ, mUnavailableQ,
                   mHttpRequestSet, sActiveHeaderRequests, sActiveLODRequests,
                   throttled, vfs, asset, nInvalid, nLoadMesh, written, event>>
    /\ AuxUnchanged
    /\ QueuesUnchanged
    /\ UploadsUnchanged

\* LLMeshRepository::shutdown: the uploads are discarded, the worker signaled.
shutdown ==
    /\ mn.pc = "run" /\ isQuitting
    /\ mn' = [mn EXCEPT !.pc = "join_repo"]
    /\ up' = IF up.pc = "waitlist" THEN up ELSE [up EXCEPT !.mDiscarded = TRUE]
    /\ signaled' = mWaiting
    /\ UNCHANGED <<lk, isQuitting, mUploadErrorQ, dec>>
    /\ UNCHANGED <<mLoadingMeshes, mPendingRequests, mMeshHeader, mMeshHeaderSize,
                   mHeaderReqQ, mLODReqQ, mPendingLOD, mLoadedQ, mUnavailableQ,
                   mHttpRequestSet, sActiveHeaderRequests, sActiveLODRequests,
                   mWaiting, pc, throttled, vfs, asset, nInvalid,
                   nLoadMesh, written, event>>
    /\ AuxUnchanged
    /\ QueuesUnchanged

\* shutdown: the worker is stopped.
shutdownRepoStopped ==
    /\ mn.pc = "join_repo" /\ pc = "stopped"
    /\ mn' = [mn EXCEPT !.pc = "join_uploads"]
    /\ UNCHANGED <<lk, isQuitting, mUploadErrorQ, up, dec>>
    /\ RepoUnchanged

\* shutdown: every upload of mUploads is stopped; LLPhysicsDecomp::shutdown
\* sets mQuitting and signals.
shutdownUploadsStopped ==
    /\ mn.pc = "join_uploads" /\ up.pc \in {"waitlist", "stopped"}
    /\ mn' = [mn EXCEPT !.pc = "join_decomp"]
    /\ dec' = [dec EXCEPT !.mQuitting = TRUE, !.signaled = (dec.pc = "wait")]
    /\ UNCHANGED <<lk, isQuitting, mUploadErrorQ, up>>
    /\ RepoUnchanged

\* LLPhysicsDecomp::shutdown: the thread is stopped; shutdown returns.
shutdownDecompStopped ==
    /\ mn.pc = "join_decomp" /\ dec.pc = "stopped"
    /\ mn' = [mn EXCEPT !.pc = "returned"]
    /\ UNCHANGED <<lk, isQuitting, mUploadErrorQ, up, dec>>
    /\ RepoUnchanged

NextUpload ==
    \/ update
    \/ runUpload
    \/ DecompRequestCtor
    \/ generateHullsSubmit
    \/ generateHullsReturns
    \/ postWholeModel
    \/ \E cc \in Responses : LLWholeModelFeeResponder(cc)
    \/ \E cc \in Responses : LLWholeModelUploadResponder(cc)
    \/ pollDone
    \/ runDecompWake
    \/ runDecompTake
    \/ runDecompLoopDone
    \/ runDecompWait
    \/ \E ret \in LLCDResults, hull \in LibraryHulls : doDecompositionSingleHull(ret, hull)
    \/ notifyCompleted
    \/ completed
    \/ notifyLoadedMeshes
    \/ UpdateDone
    \/ Wake(TRUE, FALSE)
    \/ LODLoopDone
    \/ HeaderLoopDone
    \/ Quit
    \/ runQuit
    \/ WakeQuitting
    \/ shutdown
    \/ shutdownRepoStopped
    \/ shutdownUploadsStopped
    \/ shutdownDecompStopped

SpecUpload == InitUpload /\ [][NextUpload]_vars

\* Every thread keeps running: each step that stays possible is taken.
FairnessShutdown ==
    /\ WF_vars(runUpload) /\ WF_vars(DecompRequestCtor) /\ WF_vars(generateHullsSubmit)
    /\ WF_vars(generateHullsReturns) /\ WF_vars(postWholeModel) /\ WF_vars(pollDone)
    /\ WF_vars(runDecompWake) /\ WF_vars(runDecompTake) /\ WF_vars(runDecompLoopDone)
    /\ WF_vars(runDecompWait)
    /\ WF_vars(\E ret \in LLCDResults, hull \in LibraryHulls :
                  doDecompositionSingleHull(ret, hull))
    /\ WF_vars(completed)
    /\ WF_vars(UpdateDone) /\ WF_vars(LODLoopDone) /\ WF_vars(HeaderLoopDone)
    /\ WF_vars(runQuit) /\ WF_vars(WakeQuitting)
    /\ WF_vars(shutdown) /\ WF_vars(shutdownRepoStopped)
    /\ WF_vars(shutdownUploadsStopped) /\ WF_vars(shutdownDecompStopped)

SpecShutdown == InitUpload /\ [][NextUpload]_vars /\ FairnessShutdown

(***************************************************************************)
(* generateHulls and the decomposition thread while nothing quits: the     *)
(* upload thread submits its requests, the decomposition thread works on   *)
(* them and the main thread's notifyCompleted delivers the results.        *)
(***************************************************************************)
InitHulls ==
    /\ InitUpload
    /\ dec.pc = "wait"

NextHulls ==
    \/ update
    \/ runUpload
    \/ DecompRequestCtor
    \/ generateHullsSubmit
    \/ generateHullsReturns
    \/ runDecompWake
    \/ runDecompTake
    \/ runDecompLoopDone
    \/ runDecompWait
    \/ \E ret \in LLCDResults, hull \in LibraryHulls : doDecompositionSingleHull(ret, hull)
    \/ notifyCompleted
    \/ completed

\* The upload thread, the decomposition thread and the main thread keep
\* running: each step that stays possible is taken.
FairnessHulls ==
    /\ WF_vars(update) /\ WF_vars(runUpload) /\ WF_vars(DecompRequestCtor)
    /\ WF_vars(generateHullsSubmit) /\ WF_vars(generateHullsReturns)
    /\ WF_vars(runDecompWake) /\ WF_vars(runDecompTake) /\ WF_vars(runDecompLoopDone)
    /\ WF_vars(runDecompWait)
    /\ WF_vars(\E ret \in LLCDResults, hull \in LibraryHulls :
                  doDecompositionSingleHull(ret, hull))
    /\ WF_vars(notifyCompleted) /\ WF_vars(completed)

SpecHulls == InitHulls /\ [][NextHulls]_vars /\ FairnessHulls

(***************************************************************************)
(* The mutexes: for each call, the lock, unlock and shared-queue           *)
(* operations it performs, in the order of the code.                       *)
(***************************************************************************)
\* The queues of results that the worker fills and the main thread drains.
ResultQueues == {"mLoadedQ", "mUnavailableQ", "mSkinInfoQ", "mDecompositionQ"}

headerReceivedNested ==
    <<<<"lock", "mHeaderMutex">>, <<"write", "mMeshHeader">>, <<"lock", "mMutex">>,
      <<"unlock", "mMutex">>, <<"unlock", "mHeaderMutex">>>>

\* LLMeshRepoThread::headerReceived: the header is stored under mHeaderMutex,
\* then the pending LODs are moved under mMutex.
headerReceivedLocks ==
    <<<<"lock", "mHeaderMutex">>, <<"write", "mMeshHeader">>, <<"unlock", "mHeaderMutex">>,
      <<"lock", "mMutex">>, <<"unlock", "mMutex">>>>

\* LLMeshRepoThread::notifyLoadedMeshes, called by the tick.
drainLocks ==
    <<<<"test", "mLoadedQ">>, <<"lock", "mMutex">>, <<"pop", "mLoadedQ">>,
      <<"unlock", "mMutex">>,
      <<"test", "mUnavailableQ">>, <<"lock", "mMutex">>, <<"pop", "mUnavailableQ">>,
      <<"unlock", "mMutex">>,
      <<"test", "mSkinInfoQ">>, <<"pop", "mSkinInfoQ">>,
      <<"test", "mDecompositionQ">>, <<"pop", "mDecompositionQ">>>>

notifyLoadedMeshesSwapped ==
    <<<<"lock", "mMutex">>, <<"lock", "mMeshMutex">>,
      <<"pop", "mUploadErrorQ">>,
      <<"lock", "mMutex">>, <<"read", "mMeshHeader">>, <<"unlock", "mMutex">>>>
    \o drainLocks
    \o <<<<"unlock", "mMeshMutex">>, <<"unlock", "mMutex">>>>

\* LLMeshRepository::notifyLoadedMeshes from lock1 and lock2 to the end of
\* their block: the error popup, loadMeshLOD and the worker's drain.
notifyLoadedMeshesLocks ==
    <<<<"lock", "mMeshMutex">>, <<"lock", "mMutex">>,
      <<"pop", "mUploadErrorQ">>,
      <<"lock", "mMutex">>, <<"read", "mMeshHeader">>, <<"unlock", "mMutex">>>>
    \o drainLocks
    \o <<<<"unlock", "mMutex">>, <<"unlock", "mMeshMutex">>>>

\* LLMeshRepoThread::fetchMeshLOD: the header is read under mHeaderMutex; then
\* the block comes from the cache (lodReceived), is requested (the handler's
\* constructor counts it under mMutex), or is reported unavailable.
fetchMeshLODLocks(outcome) ==
    <<<<"lock", "mHeaderMutex">>, <<"read", "mMeshHeader">>, <<"unlock", "mHeaderMutex">>>>
    \o CASE outcome = "cached" ->
              <<<<"lock", "mMutex">>, <<"push", "mLoadedQ">>, <<"unlock", "mMutex">>>>
         [] outcome = "requested" ->
              <<<<"lock", "mMutex">>, <<"unlock", "mMutex">>>>
         [] outcome = "unavailable" -> <<<<"push", "mUnavailableQ">>>>
         [] OTHER -> << >>

LockProgram(name) ==
    CASE name = "headerReceived" -> headerReceivedLocks
      [] name = "notifyLoadedMeshes" -> notifyLoadedMeshesLocks
      [] name \in {"loadMesh", "getSkinInfo", "getDecomposition", "fetchPhysicsShape"} ->
            <<<<"lock", "mMeshMutex">>, <<"unlock", "mMeshMutex">>>>
      [] name = "getActualMeshLOD" ->
            <<<<"lock", "mHeaderMutex">>, <<"read", "mMeshHeader">>,
              <<"unlock", "mHeaderMutex">>>>
      [] name = "getMeshSize" -> <<<<"read", "mMeshHeader">>>>
      [] name = "cacheOutgoingMesh" -> <<<<"write", "mMeshHeader">>>>
      \* LLMeshHeaderHandler::processData: headerReceived, then the header
      \* is read back for the cache file
      [] name = "processData" -> headerReceivedLocks \o <<<<"read", "mMeshHeader">>>>
      [] name = "uploadError" ->
            <<<<"lock", "mMeshMutex">>, <<"push", "mUploadErrorQ">>,
              <<"unlock", "mMeshMutex">>>>
      \* one turn of the LOD loop of run(): the pop, then fetchMeshLOD
      [] name \in {"cached", "requested", "unavailable"} ->
            <<<<"lock", "mMutex">>, <<"unlock", "mMutex">>>> \o fetchMeshLODLocks(name)
      [] name = "lodReceived" ->
            <<<<"lock", "mMutex">>, <<"push", "mLoadedQ">>, <<"unlock", "mMutex">>>>
      \* LLMeshLODHandler::processFailure: loadMeshLOD under mMutex
      [] name = "processFailure" ->
            <<<<"lock", "mMutex">>, <<"lock", "mMutex">>, <<"read", "mMeshHeader">>,
              <<"unlock", "mMutex">>, <<"unlock", "mMutex">>>>
      [] name = "skinInfoReceived" -> <<<<"push", "mSkinInfoQ">>>>
      [] name \in {"decompositionReceived", "physicsShapeReceived"} ->
            <<<<"push", "mDecompositionQ">>>>
      [] OTHER -> << >>

\* The calls of each thread.
ThreadPrograms ==
    [main |-> {"notifyLoadedMeshes", "loadMesh", "getSkinInfo", "getDecomposition",
               "fetchPhysicsShape", "getActualMeshLOD", "getMeshSize",
               "cacheOutgoingMesh"},
     repo |-> {"headerReceived", "processData", "cached", "requested", "unavailable", "lodReceived",
               "processFailure", "skinInfoReceived", "decompositionReceived",
               "physicsShapeReceived"},
     upload |-> {"uploadError"}]

LocksUnchanged ==
    /\ UNCHANGED <<isQuitting, mn, mUploadErrorQ, up, dec>>
    /\ RepoUnchanged

\* A thread enters a call.
LockCall(t, name) ==
    /\ lk.prog[t] = << >>
    /\ lk' = [lk EXCEPT !.prog[t] = LockProgram(name), !.call[t] = name]
    /\ LocksUnchanged

\* LLMutex::lock: the mutex is free, or the thread holds it already.
LockAcquire(t) ==
    /\ lk.prog[t] # << >> /\ Head(lk.prog[t])[1] = "lock"
    /\ \A u \in LockThreads \ {t} : ~InSeq(lk.held[u], Head(lk.prog[t])[2])
    /\ lk' = [lk EXCEPT !.prog[t] = Tail(@),
                        !.held[t] = Append(@, Head(lk.prog[t])[2])]
    /\ LocksUnchanged

\* LLMutex::unlock.
LockRelease(t) ==
    /\ lk.prog[t] # << >> /\ Head(lk.prog[t])[1] = "unlock"
    /\ LET m == Head(lk.prog[t])[2]
           last == CHOOSE i \in DOMAIN lk.held[t] :
                      /\ lk.held[t][i] = m
                      /\ \A j \in DOMAIN lk.held[t] : lk.held[t][j] = m => j <= i
       IN lk' = [lk EXCEPT !.prog[t] = Tail(@),
                           !.held[t] = SubSeq(@, 1, last - 1)
                                       \o SubSeq(@, last + 1, Len(@))]
    /\ LocksUnchanged

\* A test, push or pop of a shared queue.
QueueAccess(t) ==
    /\ lk.prog[t] # << >> /\ Head(lk.prog[t])[1] \in {"test", "push", "pop"}
    /\ lk' = [lk EXCEPT !.prog[t] = Tail(@)]
    /\ LocksUnchanged

\* A look-up in, or a store into, the header map.
HeaderMapAccess(t) ==
    /\ lk.prog[t] # << >> /\ Head(lk.prog[t])[1] \in {"read", "write"}
    /\ lk' = [lk EXCEPT !.prog[t] = Tail(@)]
    /\ LocksUnchanged

InitLocks ==
    /\ InitRepoIdle
    /\ UploadsIdle

NextLocks ==
    \/ \E t \in LockThreads : \E name \in ThreadPrograms[t] : LockCall(t, name)
    \/ \E t \in LockThreads : LockAcquire(t)
    \/ \E t \in LockThreads : LockRelease(t)
    \/ \E t \in LockThreads : QueueAccess(t)
    \/ \E t \in LockThreads : HeaderMapAccess(t)

SpecLocks == InitLocks /\ [][NextLocks]_vars

(***************************************************************************)
(* The cache file of one mesh: its header is fetched, then its blocks, and *)
(* each block is asked for again.  The file does not exist at first, or is *)
(* a stale one whose bytes are not a header.                               *)
(***************************************************************************)
\* A cache file left by an earlier use of the slot.
StaleFile ==
    [size |-> EncodedHeaderLen + 9000,
     data |-> (0 :> 200) @@ (4500 :> 200) @@ (5003 :> 200) @@ (6500 :> 200)
              @@ (8003 :> 200)]

InitCache ==
    /\ UploadsIdle
    /\ mLoadingMeshes = [k \in {} |-> {}]
    /\ mPendingRequests = << >>
    /\ mMeshHeader = [m \in {} |-> Header404]
    /\ mMeshHeaderSize = [m \in {} |-> 0]
    /\ mHeaderReqQ = << >>
    /\ mLODReqQ = << >>
    /\ mPendingLOD = [v \in {} |-> << >>]
    /\ mLoadedQ = << >>
    /\ mUnavailableQ = << >>
    /\ mHttpRequestSet = {}
    /\ sActiveHeaderRequests = 0
    /\ sActiveLODRequests = 0
    /\ mWaiting = FALSE
    /\ signaled = FALSE
    /\ pc = "update"
    /\ throttled = FALSE
    /\ uncounted = 0
    /\ mLoadingAux = [class \in AuxClassSet |-> {}]
    /\ mPendingAuxRequests = [class \in AuxClassSet |-> << >>]
    /\ mAuxRequests = [class \in AuxClassSet |-> {}]
    /\ mSkinInfoQ = << >>
    /\ mDecompositionQ = << >>
    /\ mSkinMap = << >>
    /\ mDecompositionMap = << >>
    /\ vfs \in [MeshIds -> {NoFile, StaleFile}]
    /\ asset \in [MeshIds -> {AssetOk, AssetAux, AssetFar}]
    /\ nInvalid = 0
    \* loadMesh is called twice
    /\ nLoadMesh = MaxLoadMesh - 2
    /\ written = [k \in {} |-> EmptyBuf]
    /\ event = NoEvent

\* The bytes of the asset that handler h asked for.
RangeOf(h) ==
    BufSub(asset[IF h.type \in AuxClassSet THEN h.mMeshID ELSE getSculptID(h.mMeshParams)],
           h.mOffset, h.mRequestedBytes)

NextCache ==
    \/ \E detail \in Details : loadMesh("O1", "V1", detail)
    \/ fetchPhysicsShape(AuxMeshIds[1])
    \/ notifyLoadedMeshes
    \/ UpdateDone
    \/ Wake(TRUE, FALSE)
    \/ ProcessLODRequest(TRUE, TRUE)
    \/ LODLoopDone
    \/ ProcessHeaderRequest(TRUE, TRUE)
    \/ HeaderLoopDone
    \/ \E i \in DOMAIN AuxClasses : ScanRequests(AuxClasses[i], TRUE, TRUE)
    \/ \E h \in mHttpRequestSet, vfs_ok \in BOOLEAN : HeaderSucceeded(h, RangeOf(h), vfs_ok)
    \/ \E h \in mHttpRequestSet : LODSucceeded(h, RangeOf(h))
    \/ \E h \in mHttpRequestSet : AuxSucceeded(h, RangeOf(h))

SpecCache == InitCache /\ [][NextCache]_vars

(***************************************************************************)
(* loadMesh with detail values in and around the range it accepts.         *)
(***************************************************************************)
DetailArgs == -1..5

InitDetail ==
    /\ InitRepoIdle
    /\ UploadsIdle

NextDetail ==
    \/ \E detail \in DetailArgs : loadMesh("O1", "V1", detail)
    \/ notifyLoadedMeshes
    \/ UpdateDone
    \/ Wake(TRUE, FALSE)
    \/ ProcessLODRequest(TRUE, TRUE)
    \/ LODLoopDone
    \/ ProcessHeaderRequest(TRUE, TRUE)
    \/ HeaderLoopDone
    \/ \E h \in mHttpRequestSet : HeaderSucceeded(h, RangeOf(h), TRUE)
    \/ \E h \in mHttpRequestSet : LODSucceeded(h, RangeOf(h))

SpecDetail == InitDetail /\ [][NextDetail]_vars

(***************************************************************************)
(* Properties.                                                             *)
(***************************************************************************)
Count(seq, x) == Cardinality({i \in DOMAIN seq : seq[i] = x})
Last(seq) == seq[Len(seq)]
LODs == 0..3

\* The LOD requests for (V, L) that are outstanding: in the scheduler's
\* pending list, the worker's LOD queue, the pending-LOD list and in flight.
OutstandingLOD(V, L) ==
    Count(mPendingRequests, LODRequest(V, L))
    + Count(mLODReqQ, LODRequest(V, L))
    + (IF V \in DOMAIN mPendingLOD THEN Count(mPendingLOD[V], L) ELSE 0)
    + Cardinality({h \in mHttpRequestSet :
                     h.type = "lod" /\ h.mMeshParams = V /\ h.mLOD = L})

\* C1: for every volume params V and LOD L at most one LOD request for
\* (V, L) is outstanding at any instant, counting the scheduler's pending
\* list, the worker's LOD queue, the pending-LOD list and the LOD handlers
\* in flight.
C1_OneOutstandingLOD ==
    \A V \in VolumeParams, L \in LODs : OutstandingLOD(V, L) <= 1

\* The header requests for V that are outstanding: queued or in flight.
OutstandingHeader(V) ==
    Count(mHeaderReqQ, V)
    + Cardinality({h \in mHttpRequestSet : h.type = "header" /\ h.mMeshParams = V})

\* C2: for every volume params V at most one header request for V is
\* outstanding at any instant, queued in the header queue or in flight.
C2_OneOutstandingHeader ==
    \A V \in VolumeParams : OutstandingHeader(V) <= 1

\* The LOD levels of the requests of reqs that are for V, in order.
LODsOf(reqs, V) ==
    LET sel == SelectSeq(reqs, LAMBDA r : r.mMeshParams = V)
    IN [i \in 1..Len(sel) |-> sel[i].mLOD]
PendingOf(pending, V) == IF V \in DOMAIN pending THEN pending[V] ELSE << >>

\* A tick hands requests to loadMeshLOD: for volume params whose header is
\* not known their LOD levels join the pending-LOD list, and a header
\* request is queued only if no entry was pending.
C3_Coalesced ==
    event'.op = "notifyLoadedMeshes" =>
      \A V \in VolumeParams :
        LET forwarded == SubSeq(mPendingRequests, 1,
                                Len(mPendingRequests) - Len(mPendingRequests'))
            lods == LODsOf(forwarded, V)
        IN (getSculptID(V) \notin DOMAIN mMeshHeader /\ lods # << >>) =>
             /\ PendingOf(mPendingLOD', V) = PendingOf(mPendingLOD, V) \o lods
             /\ Count(mHeaderReqQ', V) =
                  Count(mHeaderReqQ, V) + (IF V \in DOMAIN mPendingLOD THEN 0 ELSE 1)

\* headerReceived stored a header for the request of V in this step.
HeaderStoredFor(V) ==
    /\ event'.vp = V
    /\ \/ event'.op = "headerCompleted" /\ event'.res \in {"stored", "404"}
       \/ event'.op = "fetchMeshHeader" /\ event'.res = "cache"

\* When headerReceived stores the header every pending LOD level of V is
\* appended to the LOD queue, once and in order, and V's entry is removed.
C3_Flushed ==
    \A V \in VolumeParams :
      HeaderStoredFor(V) =>
        LET lods == PendingOf(mPendingLOD, V)
        IN /\ mLODReqQ' = mLODReqQ \o [i \in 1..Len(lods) |-> LODRequest(V, lods[i])]
           /\ V \notin DOMAIN mPendingLOD'

\* C3: N LOD requests for the same volume params that reach loadMeshLOD
\* before the header is known queue exactly one header request, and when
\* headerReceived stores the header all N LOD levels move from the
\* pending-LOD list to the LOD queue and the entry is removed, none lost
\* or duplicated.
C3_CoalescedThenFlushed == [][C3_Coalesced /\ C3_Flushed]_vars

\* Two coalesced LOD levels were flushed by one header response.
C3_TwoFlushed ==
    /\ event.op = "headerCompleted" /\ event.res = "stored"
    /\ event.vp \notin DOMAIN mPendingLOD
    /\ Count(mLODReqQ, LODRequest(event.vp, 0)) = 1
    /\ Count(mLODReqQ, LODRequest(event.vp, 3)) = 1
    /\ OutstandingHeader(event.vp) = 0

\* C4: when the stored header of a mesh has a version above
\* MAX_MESH_VERSION, a LOD request fetchMeshLOD processes for it goes to the
\* unavailable queue, and no LOD handler is in flight for such a mesh.
C4_NewerVersionUnavailable ==
    /\ (/\ event.op = "fetchMeshLOD"
        /\ getSculptID(event.vp) \in DOMAIN mMeshHeader
        /\ mMeshHeader[getSculptID(event.vp)].version > MAX_MESH_VERSION)
       => /\ event.res = "unavailable"
          /\ mUnavailableQ # << >>
          /\ Last(mUnavailableQ) = LODRequest(event.vp, event.lod)
    /\ \A h \in mHttpRequestSet :
         h.type = "lod" =>
           mMeshHeader[getSculptID(h.mMeshParams)].version <= MAX_MESH_VERSION

\* fetchMeshLOD found a LOD of a mesh of a newer version unavailable.
C4_NewerVersionFetched ==
    /\ event.op = "fetchMeshLOD" /\ event.res = "unavailable"
    /\ mMeshHeader[getSculptID(event.vp)].version > MAX_MESH_VERSION
    /\ Last(mUnavailableQ) = LODRequest(event.vp, event.lod)

\* C5: fetching the same (mesh id, LOD) twice issues at most one LOD HTTP
\* request when no retryable failure occurs, also for volume params that
\* share the mesh id: two LOD handlers for one mesh id and LOD are never in
\* flight together.
C5_OneLODFetchPerMesh ==
    \A h1, h2 \in mHttpRequestSet :
      (/\ h1.type = "lod" /\ h2.type = "lod"
       /\ getSculptID(h1.mMeshParams) = getSculptID(h2.mMeshParams)
       /\ h1.mLOD = h2.mLOD) => h1 = h2

\* C6: once a LOD handler has written a block to the cache file, a later
\* fetchMeshLOD for that mesh id and LOD (its header still known) is served
\* from the cache: it puts the decoding of exactly the written bytes on the
\* loaded queue and issues no HTTP request.
C6_CacheRoundTrip ==
    (event.op = "fetchMeshLOD"
       /\ <<getSculptID(event.vp), event.lod>> \in DOMAIN written
       /\ ~mMeshHeader[getSculptID(event.vp)].has404)
    => /\ event.res = "cache"
       /\ mLoadedQ # << >>
       /\ Last(mLoadedQ).mMeshParams = event.vp
       /\ Last(mLoadedQ).mLOD = event.lod
       /\ Last(mLoadedQ).mVolume.faces =
            unpackVolumeFaces(written[<<getSculptID(event.vp), event.lod>>]).faces

\* A LOD fetch that failed with a retryable status puts its request back at
\* the end of the LOD queue and reports nothing to the main thread.
C7_Requeued ==
    (event'.op = "lodCompleted" /\ event'.status # NoStatus
       /\ is_retryable(event'.status))
    => /\ mLODReqQ' = Append(mLODReqQ, LODRequest(event'.vp, event'.lod))
       /\ mUnavailableQ' = mUnavailableQ
       /\ mLoadedQ' = mLoadedQ
       /\ mLoadingMeshes' = mLoadingMeshes
       /\ mPendingRequests' = mPendingRequests

\* A request leaves the LOD queue only when the worker's loop hands it to
\* fetchMeshLOD.
C7_LeavesByFetch ==
    \A V \in VolumeParams, L \in LODs :
      Count(mLODReqQ', LODRequest(V, L)) < Count(mLODReqQ, LODRequest(V, L))
        => (event'.op = "fetchMeshLOD" /\ event'.vp = V /\ event'.lod = L)

\* C7: when a LOD fetch completes with a retryable status such as HTTP 503
\* the same (volume params, LOD) request is put back on the LOD queue, which
\* it leaves only by being attempted again by the worker's loop (no new
\* loadMesh call is involved), and no unavailable notification is emitted
\* for it.
C7_RetryableRequeued == [][C7_Requeued /\ C7_LeavesByFetch]_vars

\* A LOD fetch failed with HTTP 503 and its request is queued again.
C7_Requeued503 ==
    /\ event.op = "lodCompleted" /\ event.status = HttpStatus("http", 503)
    /\ mLODReqQ # << >>
    /\ Last(mLODReqQ) = LODRequest(event.vp, event.lod)
    /\ ~InSeq(mUnavailableQ, LODRequest(event.vp, event.lod))

\* C8: when a LOD or header fetch completes with a non-retryable status the
\* request is not queued again and every (volume params, LOD) it stood for
\* is on the unavailable queue, to be notified on the next tick.
C8_NonRetryableReported ==
    (event.status # NoStatus /\ ~is_retryable(event.status))
    => /\ event.op = "lodCompleted" =>
            /\ ~InSeq(mLODReqQ, LODRequest(event.vp, event.lod))
            /\ Count(mUnavailableQ, LODRequest(event.vp, event.lod)) = 1
       /\ event.op = "headerCompleted" =>
            /\ ~InSeq(mHeaderReqQ, event.vp)
            /\ \A i \in DOMAIN PendingOf(mPendingLOD, event.vp) :
                 Count(mUnavailableQ,
                       LODRequest(event.vp, mPendingLOD[event.vp][i])) = 1

\* C9: once a zero-length header response has marked a mesh id with "404"
\* (getActualMeshLOD gives -1 for every LOD), fetchMeshHeader issues no
\* header HTTP request for that mesh id.
C9_NoHeaderFetchAfter404 ==
    \A m \in DOMAIN mMeshHeader :
      mMeshHeader[m].has404 =>
        /\ \A lod \in LODs : getActualMeshLOD(mMeshHeader[m], lod) = -1
        /\ ~(event.op = "fetchMeshHeader" /\ event.res = "http"
               /\ getSculptID(event.vp) = m)

\* C10: a LOD request that was pending when a zero-byte header response
\* arrived is put on the unavailable queue when fetchMeshLOD processes it.
C10_PendingReportedAfter404 ==
    (/\ event.op = "fetchMeshLOD"
     /\ getSculptID(event.vp) \in DOMAIN mMeshHeader
     /\ mMeshHeader[getSculptID(event.vp)].has404)
    => /\ event.res = "unavailable"
       /\ InSeq(mUnavailableQ, LODRequest(event.vp, event.lod))

\* C11: when a successful response carries a payload that does not parse,
\* the request is not queued again and an unavailable notification is queued
\* for every (volume params, LOD) it stood for: the LOD of a LOD response
\* that does not decode, and every LOD level waiting in the pending-LOD list
\* of a header response that does not parse.
C11_ParseFailureReported ==
    /\ (event.op = "lodCompleted" /\ event.res = "parsefail") =>
          InSeq(mUnavailableQ, LODRequest(event.vp, event.lod))
    /\ (event.op = "headerCompleted" /\ event.res = "parsefail") =>
          /\ ~InSeq(mHeaderReqQ, event.vp)
          /\ \A i \in DOMAIN PendingOf(mPendingLOD, event.vp) :
               InSeq(mUnavailableQ, LODRequest(event.vp, mPendingLOD[event.vp][i]))

\* The (detail, volume params) pairs loadMesh can register.
Registrations == Details \X VolumeParams

\* C12: under fairness every (volume params, LOD) that loadMesh registered
\* in the interest sets eventually has its entry cleared by a mesh-loaded or
\* a mesh-unavailable notification.
C12_EventuallyCleared ==
    \A k \in Registrations :
       (k \in DOMAIN mLoadingMeshes) ~> (k \notin DOMAIN mLoadingMeshes)

\* The LODs below l, and above l, for which header has a block.
LowerWithBlock(header, l) == {i \in LODs : i < l /\ header.lod[i].size > 0}
HigherWithBlock(header, l) == {i \in LODs : i > l /\ header.lod[i].size > 0}

\* The requested LOD if it has a block, else the nearest lower LOD that has
\* one, else the nearest higher LOD that has one, else -1.
NearestAvailableLOD(header, l) ==
    IF header.lod[l].size > 0 THEN l
    ELSE IF LowerWithBlock(header, l) # {}
    THEN CHOOSE i \in LowerWithBlock(header, l) :
            \A j \in LowerWithBlock(header, l) : i >= j
    ELSE IF HigherWithBlock(header, l) # {}
    THEN CHOOSE i \in HigherWithBlock(header, l) :
            \A j \in HigherWithBlock(header, l) : i <= j
    ELSE -1

\* C13: for a stored header without the 404 marker and of a version up to
\* MAX_MESH_VERSION, getActualMeshLOD returns, for the lod argument clamped
\* to 0..3, the requested LOD if its block size is positive, else the nearest
\* lower LOD with a block, else the nearest higher LOD with a block, else -1;
\* the LOD it returns never has a block of size zero.
C13_NearestAvailableLOD ==
    [][\A m \in DOMAIN mMeshHeader :
         (/\ event'.op = "getActualMeshLOD" /\ getSculptID(event'.vp) = m
          /\ ~mMeshHeader[m].has404 /\ mMeshHeader[m].version <= MAX_MESH_VERSION)
         => /\ event'.res = NearestAvailableLOD(mMeshHeader[m], llclamp(event'.lod, 0, 3))
            /\ event'.res # -1 => mMeshHeader[m].lod[event'.res].size > 0]_vars

\* getActualMeshLOD fell back to a lower LOD although a higher one has a
\* block too.
C13_FellBackDown ==
    /\ event.op = "getActualMeshLOD" /\ event.lod = 2 /\ event.res = 0
    /\ \E m \in DOMAIN mMeshHeader :
         /\ ~mMeshHeader[m].has404
         /\ mMeshHeader[m].lod[3].size > 0

\* The interest-set entries a tick drains a result for.
DrainedKeys == ResultKeys \cap DOMAIN mLoadingMeshes
\* The result drained first for key k is a loaded mesh.
LoadedFirst(k) ==
    \E i \in DOMAIN mLoadedQ :
       <<getVolumeDetailFromScale(mLoadedQ[i].mVolume.mDetail), mLoadedQ[i].mMeshParams>> = k
\* The tick of this step called notifyMeshLoaded, or setVolume, on object o
\* for the entry k.
Called(o, k) ==
    \E n \in event'.notified :
       /\ n.vobj = o /\ n.mMeshParams = k[2] /\ n.mLOD = k[1]
       /\ n.kind = "loaded" \/ n.setVolume
\* The tick of this step removed the drained entries and no other.
C14_EntriesCleared ==
    /\ \A k \in DrainedKeys : k \notin DOMAIN mLoadingMeshes'
    /\ \A k \in DOMAIN mLoadingMeshes \ DrainedKeys :
         k \in DOMAIN mLoadingMeshes' /\ mLoadingMeshes'[k] = mLoadingMeshes[k]

\* C14: when a tick drains a loaded or an unavailable result for (volume
\* params, LOD), every object of that pair's interest set that still exists
\* is notified (notifyMeshLoaded, or setVolume for an unavailable LOD, is
\* called on it), the entry is removed, and the interest sets of the other
\* pairs are unchanged.
C14_AllNotified ==
    [][event'.op = "notifyLoadedMeshes" =>
         /\ \A k \in DrainedKeys :
              \A o \in mLoadingMeshes[k] \cap DOMAIN event'.found : Called(o, k)
         /\ C14_EntriesCleared]_vars

\* C14 as the code has it: for a loaded result notifyMeshLoaded is called on
\* every object of the interest set that still exists; for an unavailable
\* result setVolume is called on exactly those that still exist and whose
\* volume still has that detail and those params; no other object is
\* called; the entry is removed and the other interest sets are unchanged.
C14_NotifiedWhenShown ==
    [][event'.op = "notifyLoadedMeshes" =>
         /\ \A k \in DrainedKeys :
              \A o \in mLoadingMeshes[k] \cap DOMAIN event'.found :
                 Called(o, k) <=>
                    \/ LoadedFirst(k)
                    \/ /\ getVolumeScaleFromDetail(event'.found[o][1]) =
                             getVolumeScaleFromDetail(k[1])
                       /\ event'.found[o][2] = k[2]
         /\ \A n \in event'.notified :
              /\ <<n.mLOD, n.mMeshParams>> \in DrainedKeys
              /\ n.vobj \in mLoadingMeshes[<<n.mLOD, n.mMeshParams>>] \cap DOMAIN event'.found
         /\ C14_EntriesCleared]_vars

\* A tick drained an unavailable result whose interest set held an object
\* that exists and shows another detail: setVolume was not called on it.
C14_NotShownNotCalled ==
    /\ event.op = "notifyLoadedMeshes"
    /\ \E n \in event.notified :
         /\ n.kind = "unavailable" /\ ~n.setVolume
         /\ <<n.mLOD, n.mMeshParams>> \notin DOMAIN mLoadingMeshes

\* The <<params, LOD>> the requests of a list ask for.
KeysOf(reqs) == {<<reqs[i].mMeshParams, reqs[i].mLOD>> : i \in DOMAIN reqs}

\* The worker record t holds a request for key: in its LOD queue or among
\* the LOD levels that wait for a header.
WorkerHolds(t, key) ==
    \/ key \in KeysOf(t.mLODReqQ)
    \/ /\ key[1] \in DOMAIN t.mPendingLOD
       /\ InSeq(t.mPendingLOD[key[1]], key[2])

\* C15: a tick forwards at most sRequestHighWater minus the active header
\* and LOD requests of the pending requests; every forwarded request is
\* with the worker afterwards and every other one still is pending, once.
C15_ForwardedWithinHighWater ==
    [][event'.op = "notifyLoadedMeshes" =>
        LET active_count == sActiveHeaderRequests + sActiveLODRequests
            forwarded == KeysOf(mPendingRequests) \ KeysOf(mPendingRequests')
        IN /\ Cardinality(forwarded) <= sRequestHighWater - active_count
           /\ KeysOf(mPendingRequests') \subseteq KeysOf(mPendingRequests)
           /\ Len(mPendingRequests') = Cardinality(KeysOf(mPendingRequests'))
           /\ Len(mPendingRequests) - Len(mPendingRequests') = Cardinality(forwarded)
           /\ \A key \in forwarded : WorkerHolds(Thread', key)]_vars

\* A tick has just forwarded as many requests as the high-water mark allows
\* and left one pending.
C15_OneLeftPending ==
    /\ event.op = "notifyLoadedMeshes"
    /\ sActiveHeaderRequests + sActiveLODRequests = sRequestLowWater - 1
    /\ Len(event.sorted) = sRequestHighWater - (sRequestLowWater - 1) + 1
    /\ Len(mPendingRequests) = 1

\* C16: a tick that forwards a part of the pending list forwards the best
\* scored requests: the score the tick gave a forwarded request is no less
\* than the score it gave any request it left pending.
C16_BestScoredForwarded ==
    [][/\ event'.op = "notifyLoadedMeshes"
       /\ mPendingRequests' # mPendingRequests
       /\ mPendingRequests' # << >>
       => LET sorted == event'.sorted
              n == Len(mPendingRequests) - Len(mPendingRequests')
          IN /\ KeysOf(sorted) = KeysOf(mPendingRequests)
             /\ Len(sorted) = Len(mPendingRequests)
             /\ mPendingRequests' = SubSeq(sorted, n + 1, Len(sorted))
             /\ \A i \in 1..n : \A j \in (n + 1)..Len(sorted) :
                   sorted[i].mScore >= sorted[j].mScore]_vars

\* A tick has just forwarded a part of the list, among it a request that
\* came later in the list and has a better score than the one left pending.
C16_LaterButBetter ==
    /\ event.op = "notifyLoadedMeshes"
    /\ event.sorted # << >>
    /\ mPendingRequests # << >>
    /\ <<mPendingRequests[1].mLOD, mPendingRequests[1].mMeshParams>> = PendingKey(1)
    /\ \E i \in 1..(Len(event.sorted) - Len(mPendingRequests)) :
          event.sorted[i].mScore > mPendingRequests[1].mScore

\* C19: within a wake-up the worker takes no header request from the header
\* queue while a LOD request is queued that the per-second count and the
\* high-water mark allow to be serviced.
C19_LODBeforeHeader ==
    [][event'.op = "fetchMeshHeader" /\ mHeaderReqQ' # mHeaderReqQ
       => ~(mLODReqQ # << >> /\ MayRequest)]_vars

\* C20: a LOD byte-range request is issued over HTTP only when a header of
\* its mesh id is stored in the header map with a positive header size.
C20_HeaderBeforeLOD ==
    [][event'.op = "fetchMeshLOD" /\ event'.res = "http"
       => /\ getSculptID(event'.vp) \in DOMAIN mMeshHeader
          /\ getSculptID(event'.vp) \in DOMAIN mMeshHeaderSize
          /\ mMeshHeaderSize[getSculptID(event'.vp)] > 0]_vars

\* A LOD request was issued over HTTP for a mesh whose header is stored.
C20_LODIssued ==
    /\ event.op = "fetchMeshLOD" /\ event.res = "http"
    /\ \E h \in mHttpRequestSet :
          h.type = "lod" /\ h.mMeshParams = event.vp /\ h.mLOD = event.lod
    /\ mMeshHeaderSize[getSculptID(event.vp)] > 0

\* C17: the requests in the worker's request set, of all five classes, never
\* are more than the high-water mark.
C17_WithinHighWater ==
    Cardinality(mHttpRequestSet) <= sRequestHighWater

\* The request set is at the high-water mark, with requests of the five
\* classes in it, and a scan has left an auxiliary request waiting.
C17_HeldAtHighWater ==
    /\ Cardinality(mHttpRequestSet) = sRequestHighWater
    /\ event.op = "scan"
    /\ \E class \in AuxClassSet : mAuxRequests[class] # {}
    /\ \E h \in mHttpRequestSet : h.type \in AuxClassSet
    /\ \E h \in mHttpRequestSet : h.type = "header"

\* C18: between two resets of count the worker issues at most
\* MAX_MESH_REQUESTS_PER_SECOND GETs of all five classes: when count, which
\* holds the header and LOD GETs, stands at the cap, no other GET was
\* issued since it was cleared.
C18_AllGetsCounted ==
    throttled => uncounted = 0

\* The fetches of class for mesh_id that are outstanding: pending at the
\* scheduler, in the worker's request set, and in flight.
Outstanding(class, mesh_id) ==
    Cardinality({i \in DOMAIN mPendingAuxRequests[class] :
                    mPendingAuxRequests[class][i] = mesh_id})
    + (IF mesh_id \in mAuxRequests[class] THEN 1 ELSE 0)
    + Cardinality({h \in mHttpRequestSet : h.type = class /\ h.mMeshID = mesh_id})

\* C21: for each mesh id and each auxiliary class at most one fetch is
\* outstanding, at the scheduler, at the worker or in flight.
C21_OneFetchOutstanding ==
    \A class \in AuxClassSet : \A i \in DOMAIN AuxMeshIds :
        Outstanding(class, AuxMeshIds[i]) <= 1

\* The results for mesh_id a tick drains, after the record the map holds.
PartsOf(mesh_id) ==
    (IF mesh_id \in DOMAIN mDecompositionMap
     THEN <<mDecompositionMap[mesh_id]>> ELSE << >>)
    \o SelectSeq(mDecompositionQ, LAMBDA d : d.mMeshID = mesh_id)

\* The first of parts that is not empty, of the field part picks.
FirstPart(parts, part(_)) ==
    IF \A i \in DOMAIN parts : part(parts[i]) = EmptyBuf
    THEN EmptyBuf
    ELSE part(parts[CHOOSE i \in DOMAIN parts :
                        /\ part(parts[i]) # EmptyBuf
                        /\ \A j \in 1..(i - 1) : part(parts[j]) = EmptyBuf])

\* C22: after a tick the map holds for each mesh one record, the earlier
\* results merged with the later: its hull is the first hull that arrived
\* and its physics shape mesh the first that arrived, whatever the order.
C22_MergedNotReplaced ==
    [][event'.op = "notifyLoadedMeshes" =>
        /\ \A m \in DOMAIN mDecompositionMap' :
              /\ PartsOf(m) # << >>
              /\ mDecompositionMap'[m].mMeshID = m
              /\ mDecompositionMap'[m].mBaseHull =
                    FirstPart(PartsOf(m), LAMBDA d : d.mBaseHull)
              /\ mDecompositionMap'[m].mPhysicsShapeMesh =
                    FirstPart(PartsOf(m), LAMBDA d : d.mPhysicsShapeMesh)
        /\ \A i \in DOMAIN mDecompositionQ :
              mDecompositionQ[i].mMeshID \in DOMAIN mDecompositionMap']_vars

\* A tick has merged a hull and a physics shape mesh, fetched apart, into
\* the one record of M1.
C22_BothMerged ==
    /\ event.op = "notifyLoadedMeshes"
    /\ "M1" \in DOMAIN mDecompositionMap
    /\ mDecompositionMap["M1"].mBaseHull # EmptyBuf
    /\ mDecompositionMap["M1"].mPhysicsShapeMesh # EmptyBuf

\* C23: once the fee request of an upload has failed, the upload thread has
\* issued no upload POST, its cached upload URL is empty, and exactly one
\* upload error, carrying the error's message and identifier, was queued for
\* the main thread (it is in mUploadErrorQ or was shown by the tick).
C23_FeeErrorReported ==
    up.fee = "failed" =>
        /\ ~InSeq(up.posts, "upload")
        /\ up.mWholeModelUploadURL = ""
        /\ mn.notifications \o mUploadErrorQ =
              <<[MESSAGE |-> up.response[1].message,
                 IDENTIFIER |-> up.response[1].identifier, LABEL |-> "mesh model"]>>

\* The fee request failed, the thread has stopped and the tick has shown the error.
C23_FeeFailedShown ==
    /\ up.fee = "failed" /\ up.pc = "stopped"
    /\ Len(mn.notifications) = 1 /\ mUploadErrorQ = << >>
    /\ mn.notifications[1].MESSAGE = "bad mesh"
    /\ mn.notifications[1].IDENTIFIER = "E1"

\* C24: the decomposition thread has at most one current request; every
\* request started before the current one is in the completion history, and
\* requests are started and completed in the order of submission.
C24_OneAtATime ==
    /\ Len(dec.mCurRequest) <= 1
    /\ Len(dec.started) = Len(dec.finished) + Len(dec.mCurRequest)
    /\ dec.started = SubSeq(dec.submitted, 1, Len(dec.started))
    /\ dec.finished = SubSeq(dec.started, 1, Len(dec.finished))

\* The second request is the current one, after the first was completed.
C24_SecondStarted ==
    /\ dec.started = <<1, 2>> /\ dec.finished = <<1>>
    /\ Len(dec.mCurRequest) = 1 /\ dec.mCurRequest[1].id = 2

\* The smallest and the largest of the positions.
Extrema(positions) ==
    <<CHOOSE x \in {positions[i] : i \in DOMAIN positions} :
          \A i \in DOMAIN positions : x <= positions[i],
      CHOOSE x \in {positions[i] : i \in DOMAIN positions} :
          \A i \in DOMAIN positions : x >= positions[i]>>

\* C25: every single-hull request in the completion queue has exactly one
\* hull, the library's when the library succeeded and the box of the vertex
\* extrema when it failed; the assertion of DecompRequest::completed holds.
C25_OneHull ==
    /\ ~mn.assertFailed
    /\ \A i \in DOMAIN dec.mCompletedQ :
          LET req == dec.mCompletedQ[i]
          IN req.mStage = "single_hull" =>
                /\ Len(req.mHull) = 1
                /\ IF req.ret = LLCD_OK
                   THEN req.mHull[1] \in LibraryHulls
                   ELSE req.mHull[1] = Extrema(req.mPositions)

\* The library failed for a request and its box is in the hull map.
C25_BoxRecorded ==
    /\ \E b \in DOMAIN up.mHullMap : up.mHullMap[b] = <<1, 3>>
    /\ ~mn.assertFailed

\* C26: after generateHulls has returned, every request the upload thread
\* submitted is out of the request queue, is not the current request, and
\* its hull is in mHullMap under its base model.
C26_HullsRecorded ==
    (up.pc = "post" \/ up.posts # << >>) =>
        \A i \in DOMAIN dec.submitted :
            /\ InSeq(dec.finished, dec.submitted[i])
            /\ BaseModels[dec.submitted[i]] \in DOMAIN up.mHullMap

\* C27: once the application is quitting, shutdown returns, with the worker,
\* the upload thread and the decomposition thread stopped.
C27_ShutdownReturns ==
    isQuitting ~> (/\ mn.pc = "returned"
                   /\ pc = "stopped"
                   /\ up.pc \in {"waitlist", "stopped"}
                   /\ dec.pc = "stopped")

\* C28: no thread holds mMutex acquired after mHeaderMutex: in the order in
\* which a thread acquired the mutexes it holds, mHeaderMutex never comes
\* before mMutex.
C28_QueueMutexNotUnderHeaderMutex ==
    \A t \in LockThreads :
        \A i, j \in DOMAIN lk.held[t] :
            i < j => ~(lk.held[t][i] = "mHeaderMutex" /\ lk.held[t][j] = "mMutex")

\* headerReceived has released mHeaderMutex and holds mMutex.
C28_HeaderThenQueue ==
    /\ lk.call["repo"] = "headerReceived"
    /\ lk.held["repo"] = <<"mMutex">>
    /\ Len(lk.prog["repo"]) = 1

\* Thread t waits for a mutex that thread u holds.
WaitsFor(t, u) ==
    /\ lk.prog[t] # << >> /\ Head(lk.prog[t])[1] = "lock"
    /\ InSeq(lk.held[u], Head(lk.prog[t])[2])

\* C29: a thread that holds mMeshMutex acquired it before any mMutex it
\* holds, and no two threads wait for each other's mutexes.
C29_MeshMutexFirst ==
    /\ \A t \in LockThreads :
          \A j \in DOMAIN lk.held[t] :
              lk.held[t][j] = "mMeshMutex" =>
                  \/ \E i \in 1..(j - 1) : lk.held[t][i] = "mMeshMutex"
                  \/ \A i \in 1..(j - 1) : lk.held[t][i] # "mMutex"
    /\ \A t, u \in LockThreads : t # u => ~(WaitsFor(t, u) /\ WaitsFor(u, t))

\* The tick holds mMeshMutex, then mMutex, and the worker waits for mMutex.
C29_WorkerWaitsForTick ==
    /\ lk.held["main"] = <<"mMeshMutex", "mMutex">>
    /\ WaitsFor("repo", "main")

\* Thread t is about to perform the operation kind on queue q.
AboutTo(t, kind, q) ==
    /\ lk.prog[t] # << >>
    /\ Head(lk.prog[t]) = <<kind, q>>

\* C30: whenever a thread is about to push to or pop from one of the result
\* queues, it holds mMutex; so the worker is never about to push to a queue
\* from which the main thread is about to pop.
C30_QueuesGuarded ==
    /\ \A t \in LockThreads : \A q \in ResultQueues :
          AboutTo(t, "push", q) \/ AboutTo(t, "pop", q) => InSeq(lk.held[t], "mMutex")
    /\ \A q \in ResultQueues :
          ~(AboutTo("repo", "push", q) /\ AboutTo("main", "pop", q))

\* The blocks a header lists.
HeaderBlocks(header) ==
    {header.lod[i] : i \in 0..3}
    \cup {header.skin, header.physics_convex, header.physics_mesh}

\* The header handler of mesh id m has just stored a header of a supported
\* version and written the response to the cache file.
HeaderJustCached(m) ==
    /\ event.op = "headerCompleted" /\ event.res = "stored"
    /\ getSculptID(event.vp) = m
    /\ m \in DOMAIN mMeshHeader
    /\ mMeshHeader[m].version <= MAX_MESH_VERSION
    /\ vfs[m].size >= ReservedBytes(mMeshHeader[m], mMeshHeaderSize[m])

\* The bytes of the response that a header handler writes for mesh id m.
WrittenBytes(m) ==
    llmin(BufSub(asset[m], 0, MESH_HEADER_SIZE).size,
          ReservedBytes(mMeshHeader[m], mMeshHeaderSize[m]))

C40_FileHoldsEveryBlock ==
    \A m \in MeshIds :
        /\ HeaderJustCached(m) =>
              \A b \in HeaderBlocks(mMeshHeader[m]) :
                  b.size > 0 => mMeshHeaderSize[m] + b.offset + b.size <= vfs[m].size
        /\ (/\ event.op \in {"lodCompleted", "auxCompleted"}
            /\ m \in DOMAIN mMeshHeader
            /\ vfs[m].size >= ReservedBytes(mMeshHeader[m], mMeshHeaderSize[m]))
           => event.res \notin {"loaded", "received"}

\* C32: whenever a thread is about to read or write the header map it holds
\* mHeaderMutex, so the worker is never about to write the map while another
\* thread is about to read or write it.
C32_HeaderMapGuarded ==
    /\ \A t \in LockThreads :
          AboutTo(t, "read", "mMeshHeader") \/ AboutTo(t, "write", "mMeshHeader")
          => InSeq(lk.held[t], "mHeaderMutex")
    /\ \A t \in LockThreads \ {"repo"} :
          ~(/\ AboutTo("repo", "write", "mMeshHeader")
            /\ AboutTo(t, "read", "mMeshHeader") \/ AboutTo(t, "write", "mMeshHeader"))

\* The live handlers of a type.
LiveHandlers(type) == {h \in mHttpRequestSet : h.type = type}

\* C33: while the application is not quitting, sActiveHeaderRequests is the
\* number of live header handlers and sActiveLODRequests the number of live
\* LOD handlers, neither is negative, and after a fetch whose handler was
\* created and deleted for want of a handle both are what they were.
C33_CountersMatchHandlers ==
    ~isQuitting =>
        /\ sActiveHeaderRequests = Cardinality(LiveHandlers("header"))
        /\ sActiveLODRequests = Cardinality(LiveHandlers("lod"))
        /\ sActiveHeaderRequests >= 0 /\ sActiveLODRequests >= 0

\* A LOD handler was created and deleted because getByteRange gave no
\* handle, while a header handler is live.
C33_HandlerDeletedUnissued ==
    /\ ~isQuitting
    /\ event.op = "fetchMeshLOD" /\ event.res = "invalid"
    /\ sActiveLODRequests = 0
    /\ \E h \in mHttpRequestSet : TRUE

\* C34: the pending-LOD list of a VolumeParams never has more than NUM_LODS
\* entries (the bound loadMeshLOD asserts) and never holds a LOD level twice.
C34_PendingLODDistinct ==
    \A v \in DOMAIN mPendingLOD :
        /\ Len(mPendingLOD[v]) <= NUM_LODS
        /\ \A i, j \in DOMAIN mPendingLOD[v] :
              i # j => mPendingLOD[v][i] # mPendingLOD[v][j]

\* loadMeshLOD has appended a second level to a pending list.
C34_SecondLevelPending ==
    \E v \in DOMAIN mPendingLOD : Len(mPendingLOD[v]) = 2

\* C36: a wake-up of the worker ends.  Every turn of the LOD request loop and
\* of the header request loop leaves its queue shorter than it found it, so
\* that the loop ends after as many turns as the queue had requests, also
\* when no request can be issued.
C36_TurnsShortenQueue ==
    [][/\ (pc = "lod" /\ event'.op = "fetchMeshLOD" /\ event' # event)
          => Len(mLODReqQ') < Len(mLODReqQ)
       /\ (pc = "header" /\ event'.op = "fetchMeshHeader" /\ event' # event)
          => Len(mHeaderReqQ') < Len(mHeaderReqQ)]_vars

\* C35: every LOD request that loadMesh has registered or queued, and every
\* request that fetchMeshLOD was called for, has a level with a name in
\* header_lod (0..3); a loadMesh call with any other detail is rejected.
C35_LevelsHaveNames ==
    /\ \A key \in DOMAIN mLoadingMeshes : key[1] \in DOMAIN header_lod
    /\ \A i \in DOMAIN mPendingRequests : mPendingRequests[i].mLOD \in DOMAIN header_lod
    /\ \A i \in DOMAIN mLODReqQ : mLODReqQ[i].mLOD \in DOMAIN header_lod
    /\ event.op = "fetchMeshLOD" => event.lod \in DOMAIN header_lod
    /\ (event.op = "loadMesh" /\ event.lod \notin DOMAIN header_lod)
          => event.res = "rejected"

\* C39: a tick that starts with the active header and LOD requests at or
\* above the low-water mark forwards no pending request; a tick that starts
\* below it forwards min(pending, sRequestHighWater - active) requests.
C39_ForwardedWithHysteresis ==
    [][event'.op = "notifyLoadedMeshes" =>
        LET active_count == sActiveHeaderRequests + sActiveLODRequests
            forwarded == Len(mPendingRequests) - Len(mPendingRequests')
        IN IF active_count >= sRequestLowWater
           THEN forwarded = 0 /\ mPendingRequests' = mPendingRequests
           ELSE forwarded = llmin(Len(mPendingRequests),
                                  sRequestHighWater - active_count)]_vars

\* A tick at the low-water mark, below the high-water mark, has just run
\* with requests pending and has left them pending, unsorted.
C39_HeldBackAtLowWater ==
    /\ event.op = "notifyLoadedMeshes"
    /\ sActiveHeaderRequests + sActiveLODRequests = sRequestLowWater
    /\ sRequestLowWater < sRequestHighWater
    /\ mPendingRequests # << >>
    /\ event.sorted = << >>

\* C37: every request submitted to the decomposition engine is eventually
\* taken from the request queue and put on the completion queue, whenever
\* the decomposition thread keeps running.
C37_SubmittedIsCompleted ==
    \A id \in DOMAIN BaseModels :
        [](InSeq(dec.submitted, id) => <>InSeq(dec.finished, id))

\* generateHulls has constructed the request of every base model, every
\* request it submitted has been worked on and delivered by notifyCompleted.
AllDelivered ==
    /\ up.pc = "hulls" /\ up.next > Len(up.mInstance)
    /\ dec.finished = dec.submitted
    /\ dec.mCompletedQ = << >>
    /\ mn.pc = "run"

\* C38: generateHulls eventually returns, whatever mix of valid and invalid
\* requests the base models give: once every request is constructed and
\* every submitted one is delivered, the wait for mPhysicsComplete ends.
C38_GenerateHullsReturns ==
    [](AllDelivered => <>(up.pc = "post"))

====
